---- MODULE Spec2Model ----
(***************************************************************************)
(* A model of the Nora gateway's AI-request orchestration:                 *)
(*   - ask_ai / ask_ollama / ask_gemini of gateway/ai_providers.py         *)
(*   - process_with_memory, query_ai_server and the REST / WebSocket       *)
(*     command handlers of gateway/server_enhanced.py over the             *)
(*     MemoryStore of gateway/database.py                                  *)
(*   - ask_ai / chat and the context cache of gateway/server.py, and the   *)
(*     context cache of gateway/documents.py                               *)
(* Texts are strings, as in the source.                                    *)
(***************************************************************************)
EXTENDS Integers, Sequences, FiniteSets, TLC

None == "<None>"

StartsWith(s, p) == Len(s) >= Len(p) /\ SubSeq(s, 1, Len(p)) = p

(***************************************************************************)
(* Configuration (gateway/config.py)                                       *)
(***************************************************************************)
AI_MODEL == "llama3.2"
GEMINI_MODEL == "gemini-2.0-flash"
GEMINI_PLACEHOLDER == "YOUR_GEMINI_API_KEY_HERE"
AI_SERVER_URL == "http://localhost:11434"

\* max_retries, the default of ask_ollama and _ask_ollama_http
max_retries == 3

(***************************************************************************)
(* Inputs the model draws from                                             *)
(***************************************************************************)
\* provider arguments: the two known names, an unknown name, the empty string
Providers == {"ollama", "gemini", "cloud", ""}
\* model overrides
Models == {None, "gemini-1.5-pro", "mistral"}
\* texts a backend can produce, the empty text among them
Contents == {"", "4"}
\* API keys the gateway can be configured with
ApiKeys == {"", GEMINI_PLACEHOLDER, "k3y"}

\* what one attempt against the Ollama backend can end in
\*   ok          the backend answered with a message
\*   no_content  HTTP 200 whose body holds no message.content (HTTP path)
\*   not_found   the backend reports the model is absent (404)
\*   bad_status  another error status / ResponseError
\*   conn_error  the connection failed
\*   timeout     the request timed out
\*   other_error any other exception
OllamaOutcomes ==
    {"ok", "no_content", "not_found", "bad_status", "conn_error", "timeout",
     "other_error"}

\* what the one request of ask_gemini can end in
GeminiOutcomes ==
    {"ok", "bad_shape", "bad_key", "not_found", "bad_status", "timeout",
     "other_error"}

VARIABLES
    \* ---- gateway/ai_providers.py ------------------------------------------
    OLLAMA_LIB_AVAILABLE,   \* whether the ollama library was importable
    GEMINI_API_KEY,         \* the configured API key
    a_pc,        \* ask_ai: "idle", "primary", "fallback", "done"
    a_args,      \* ask_ai's arguments [provider, model, fallback]
    a_adapter,   \* the adapter function now running ("ollama"/"gemini"), or None
    a_attempt,   \* ask_ollama: the loop variable attempt
    a_sleeps,    \* ask_ollama: the asyncio.sleep durations of this adapter call
    a_last,      \* the outcome of the last backend request of this adapter call
    a_calls,     \* adapter calls of this ask_ai call: <<[adapter, model]>>
    a_reqs,      \* backend requests of this ask_ai call: <<[adapter, model]>>
    a_prim,      \* what the primary adapter returned: <<[ok, text]>>, or <<>>
    a_fb,        \* what the fallback adapter returned: <<[ok, text]>>, or <<>>
    a_ret        \* what ask_ai returned: <<[text, provider]>>, or <<>>

askVars ==
    <<OLLAMA_LIB_AVAILABLE, GEMINI_API_KEY, a_pc, a_args, a_adapter, a_attempt,
      a_sleeps, a_last, a_calls, a_reqs, a_prim, a_fb, a_ret>>

VARIABLES
    \* ---- gateway/server_enhanced.py, gateway/database.py ------------------
    memory_on,          \* DB_AVAILABLE and config["enable_memory"]
    users,              \* table users: the client ids
    conversations,      \* table conversations: {[session_id, client_id, title]}
    messages,           \* table messages, in created_at order:
                        \*   <<[session_id, role, content, turn]>>
                        \*   (turn: the command that stored it, history only)
    n_uuid,             \* how many uuid4() values were drawn
    task,               \* the request tasks: the handler's local variables,
                        \*   and the type of the last frame it sent
    active_connections, \* ConnectionManager.active_connections
    turns,              \* history: the accepted commands, in order of arrival
    gclk                \* history: a clock of command arrivals and answers

memVars ==
    <<memory_on, users, conversations, messages, n_uuid, task,
      active_connections, turns, gclk>>

VARIABLES
    \* ---- gateway/server.py, gateway/documents.py, gateway/config.py ------
    now,            \* time.time(), in seconds
    company_info,   \* the files of COMPANY_INFO_DIR: name -> text, or Absent
    uploads,        \* the files of UPLOADS_DIR: name -> text, or Absent
    context_cache,  \* server.py's _context_cache: [content, timestamp]
    doc_cache,      \* config.cache, the entry 'company_context':
                    \*   [data, timestamps], each <<>> or <<value>>
    ctx_last,       \* history: the last call of a load_company_context
    ctx_hist        \* history: that call against the calls and the changes
                    \*   of the document store before it

ctxVars ==
    <<now, company_info, uploads, context_cache, doc_cache, ctx_last, ctx_hist>>

VARIABLES
    \* ---- gateway/ai_providers.py: the stream_* generators ----------------
    st              \* the async generators made by stream_ai, by call:
                    \*   [pc, path, out, session, lines, failed]

streamVars == <<st>>

VARIABLES
    \* ---- the requests the adapters of ai_providers.py and server.py build
    request         \* the request an adapter built last:
                    \*   [adapter, language, system, user, inputs]

langVars == <<request>>

VARIABLES
    \* ---- gateway/server.py: chat, ask_ai and its adapters ----------------
    AI_PROVIDER,    \* server.py's AI_PROVIDER, the configured default
    chat_key,       \* server.py's GEMINI_API_KEY
    chat_pc,        \* ask_ai: "idle", "primary", "fallback", "done"
    chat_args,      \* ask_ai's arguments [provider, model, language]
    chat_calls,     \* adapter calls of this ask_ai call:
                    \*   <<[adapter, model, language, use_model]>>
    chat_ret,       \* the response of chat: <<[success, response, provider,
                    \*   model, by]>>, or <<>>
    chat_attempt,   \* ask_ollama: the loop variable attempt
    chat_sleeps,    \* ask_ollama: the asyncio.sleep durations of this call
    chat_reqs,      \* the requests the backends received for this chat:
                    \*   <<[to, kind, attempt, model, key]>>
    chat_last       \* ask_ollama: last_error, by its class

chatVars ==
    <<AI_PROVIDER, chat_key, chat_pc, chat_args, chat_calls, chat_ret,
      chat_attempt, chat_sleeps, chat_reqs, chat_last>>

VARIABLES
    \* ---- gateway/server.py: /auth/login and its rate limiter -------------
    login_attempts, \* login_attempts: ip -> the times of the failed logins
    login_now,      \* time.time(), in seconds
    login_last,     \* the login request answered last:
                    \*   [ip, correct, before, status, verified]
    login_limited   \* the ips that were answered 429

loginVars == <<login_attempts, login_now, login_last, login_limited>>

VARIABLES
    \* ---- client/gateway_client.py: GatewayClient over WebSocket ----------
    cl_auto_reconnect,  \* self.auto_reconnect
    cl_connected,       \* self.connected
    cl_websocket,       \* self.websocket: 0 for None, 1 for a connection
    cl_pc,              \* send_command: "idle", "connect", "send", "recv",
                        \*   "sleep", "returned", "raised"
    cl_depth,           \* how many send_command calls are on the stack
    cl_processed,       \* command frames of this call the gateway received
    cl_ret              \* what the last send_command call returned, or None

clientVars ==
    <<cl_auto_reconnect, cl_connected, cl_websocket, cl_pc, cl_depth,
      cl_processed, cl_ret>>

vars ==
    <<askVars, memVars, ctxVars, streamVars, langVars, chatVars, loginVars,
      clientVars>>

\* what the actions of one component leave alone
notAsk ==
    <<memVars, ctxVars, streamVars, langVars, chatVars,
      loginVars, clientVars>>
notMem ==
    <<askVars, ctxVars, streamVars, langVars, chatVars,
      loginVars, clientVars>>
notCtx ==
    <<askVars, memVars, streamVars, langVars, chatVars,
      loginVars, clientVars>>
\* the generators read the configuration and change nothing but themselves
notStream ==
    <<askVars, memVars, ctxVars, langVars, chatVars,
      loginVars, clientVars>>
notLang ==
    <<askVars, memVars, ctxVars, streamVars, chatVars,
      loginVars, clientVars>>
notChat ==
    <<askVars, memVars, ctxVars, streamVars, langVars,
      loginVars, clientVars>>
notLogin ==
    <<askVars, memVars, ctxVars, streamVars, langVars, chatVars, clientVars>>
notClient ==
    <<askVars, memVars, ctxVars, streamVars, langVars, chatVars, loginVars>>


(***************************************************************************)
(* ask_ollama and _ask_ollama_http (gateway/ai_providers.py)               *)
(***************************************************************************)
OllamaNotFoundMsg ==
    "Model '" \o AI_MODEL \o "' not found. Run: ollama pull " \o AI_MODEL

OllamaLibConnectMsg ==
    "Failed to connect to Ollama. Please check that:\n"
    \o "1. Ollama is installed and running\n"
    \o "2. Run 'ollama serve' or 'systemctl start ollama'\n"
    \o "3. Ollama is accessible at: " \o AI_SERVER_URL

OllamaHttpConnectMsg ==
    "Failed to connect to Ollama. Please check that:\n"
    \o "1. Ollama is installed (https://ollama.com/download)\n"
    \o "2. Ollama is running (run 'ollama serve' in terminal)\n"
    \o "3. Ollama is accessible at: " \o AI_SERVER_URL

\* str(e) of the exception an outcome raises
ExcText(outcome) ==
    CASE outcome = "conn_error" -> "All connection attempts failed"
      [] outcome = "timeout" -> "Request timed out"
      [] outcome = "bad_status" -> "internal server error (status code: 500)"
      [] OTHER -> "unexpected error"

\* '"connect" in error_msg.lower() or "connection" in error_msg.lower()'
MentionsConnect(outcome) == outcome = "conn_error"

\* The outcomes each path of ask_ollama can see: the library raises
\* ResponseError for every error status and always returns a message.
OllamaPathOutcomes(lib) ==
    IF lib THEN OllamaOutcomes \ {"no_content"} ELSE OllamaOutcomes

\* One pass of the loop body of ask_ollama (library path).  The result is
\* [done, ok, text, sleep]: done says the function returned, sleep is the
\* asyncio.sleep duration before the next attempt (0: no sleep).
ask_ollama_lib_attempt(attempt, outcome, content) ==
    CASE outcome = "ok" ->
            [done |-> TRUE, ok |-> TRUE, text |-> content, sleep |-> 0]
      [] outcome = "not_found" ->
            [done |-> TRUE, ok |-> FALSE, text |-> OllamaNotFoundMsg, sleep |-> 0]
      [] outcome = "bad_status" ->
            [done |-> TRUE, ok |-> FALSE, text |-> ExcText(outcome), sleep |-> 0]
      [] OTHER ->
            IF attempt < max_retries - 1
            THEN [done |-> FALSE, ok |-> FALSE, text |-> "", sleep |-> 2 ^ attempt]
            ELSE [done |-> TRUE, ok |-> FALSE,
                  text |-> IF MentionsConnect(outcome)
                           THEN OllamaLibConnectMsg ELSE ExcText(outcome),
                  sleep |-> 0]

\* a loop of _ask_ollama_http that goes on until the backend answers
ask_ollama_http_attempt_unbounded(attempt, outcome, content) ==
    IF outcome = "ok"
    THEN [done |-> TRUE, ok |-> TRUE, text |-> content, sleep |-> 0]
    ELSE [done |-> FALSE, ok |-> FALSE, text |-> "", sleep |-> 2 ^ attempt]

\* One pass of the loop body of _ask_ollama_http, with the return after the
\* loop folded into the last pass.
ask_ollama_http_attempt(attempt, outcome, content) ==
    CASE outcome = "ok" ->
            [done |-> TRUE, ok |-> TRUE, text |-> content, sleep |-> 0]
      [] outcome = "no_content" ->
            [done |-> TRUE, ok |-> TRUE, text |-> "No response", sleep |-> 0]
      [] outcome = "not_found" ->
            [done |-> TRUE, ok |-> FALSE, text |-> OllamaNotFoundMsg, sleep |-> 0]
      [] outcome = "other_error" ->
            [done |-> TRUE, ok |-> FALSE, text |-> ExcText(outcome), sleep |-> 0]
      [] OTHER ->
            IF attempt < max_retries - 1
            THEN [done |-> FALSE, ok |-> FALSE, text |-> "", sleep |-> 2 ^ attempt]
            ELSE [done |-> TRUE, ok |-> FALSE, text |-> OllamaHttpConnectMsg,
                  sleep |-> 0]

ask_ollama_attempt(lib, attempt, outcome, content) ==
    IF lib THEN ask_ollama_lib_attempt(attempt, outcome, content)
    ELSE ask_ollama_http_attempt(attempt, outcome, content)

(***************************************************************************)
(* ask_gemini (gateway/ai_providers.py)                                    *)
(***************************************************************************)
\* the credential check that precedes every network call
GeminiKeyConfigured(key) == key # "" /\ key # GEMINI_PLACEHOLDER

GeminiNoKeyMsg ==
    "Gemini API key not configured. Set GEMINI_API_KEY in your .env file."

\* use_model of ask_gemini
GeminiUseModel(model) ==
    LET m == IF model # None THEN model ELSE GEMINI_MODEL
    IN  IF StartsWith(m, "gemini") THEN m ELSE "gemini-2.0-flash"

\* what ask_gemini returns for the outcome of its request: [ok, text]
ask_gemini_result(outcome, content, use_model) ==
    CASE outcome = "ok" -> [ok |-> TRUE, text |-> content]
      [] outcome = "bad_shape" ->
            [ok |-> FALSE, text |-> "Invalid response format from Gemini"]
      [] outcome = "bad_key" ->
            [ok |-> FALSE, text |-> "Invalid Gemini API key. Check your GEMINI_API_KEY."]
      [] outcome = "not_found" ->
            [ok |-> FALSE,
             text |-> "Gemini model '" \o use_model \o "' not found. Try gemini-2.0-flash."]
      [] outcome = "bad_status" ->
            [ok |-> FALSE, text |-> "Gemini API error: 500"]
      [] outcome = "timeout" ->
            [ok |-> FALSE, text |-> "Gemini request timed out"]
      [] OTHER -> [ok |-> FALSE, text |-> ExcText(outcome)]

(***************************************************************************)
(* ask_ai (gateway/ai_providers.py)                                        *)
(***************************************************************************)
\* the adapter the first branch of ask_ai calls
PrimaryAdapter(provider) == IF provider = "gemini" THEN "gemini" ELSE "ollama"

\* the model argument the primary call passes on (ask_ollama takes none)
PrimaryModelArg(provider, model) == IF provider = "gemini" THEN model ELSE None

\* a fallback that is tried whatever the flag says
FallbackEnabled_always(fallback) == TRUE

\* 'if fallback:'
FallbackEnabled(fallback) == fallback

\* fallback_provider
FallbackProvider(provider) == IF provider = "ollama" THEN "gemini" ELSE "ollama"

FallbackNote(fallback_provider) ==
    "\n\n*(Using " \o fallback_provider \o " as fallback)*"

\* a primary return that names the default provider whichever adapter ran
AskAiPrimaryReturn_default(result, adapter) ==
    [text |-> result, provider |-> "ollama"]

\* 'return result, "gemini"' / 'return result, "ollama"'
AskAiPrimaryReturn(result, adapter) == [text |-> result, provider |-> adapter]

\* a fallback return that forgets the annotation
AskAiFallbackReturn_plain(fallback_result, fallback_provider) ==
    [text |-> fallback_result, provider |-> fallback_provider]

\* 'return fallback_result + ..., fallback_provider'
AskAiFallbackReturn(fallback_result, fallback_provider) ==
    [text |-> fallback_result \o FallbackNote(fallback_provider),
     provider |-> fallback_provider]

\* 'return f"Error: {result}", provider'
AskAiFailureReturn(result, provider) ==
    [text |-> "Error: " \o result, provider |-> provider]

\* an adapter function is entered
EnterAdapter(adapter, model) ==
    /\ a_adapter' = adapter
    /\ a_attempt' = 0
    /\ a_sleeps' = <<>>
    /\ a_last' = None
    /\ a_calls' = Append(a_calls, [adapter |-> adapter, model |-> model])

LeaveAdapter ==
    /\ a_adapter' = None
    /\ a_attempt' = 0
    /\ UNCHANGED a_calls

\* ask_ai is called
ask_ai_call(provider, model, fallback) ==
    /\ a_pc = "idle"
    /\ a_pc' = "primary"
    /\ a_args' = [provider |-> provider, model |-> model, fallback |-> fallback]
    /\ a_prim' = <<>>
    /\ a_fb' = <<>>
    /\ a_ret' = <<>>
    /\ a_reqs' = <<>>
    /\ a_adapter' = PrimaryAdapter(provider)
    /\ a_attempt' = 0
    /\ a_sleeps' = <<>>
    /\ a_last' = None
    /\ a_calls' = <<[adapter |-> PrimaryAdapter(provider),
                     model |-> PrimaryModelArg(provider, model)]>>
    /\ UNCHANGED <<OLLAMA_LIB_AVAILABLE, GEMINI_API_KEY>>
    /\ UNCHANGED notAsk

\* ask_ai goes on after the awaited adapter returned (ok, text)
ask_ai_resume(ok, text) ==
    IF a_pc = "primary"
    THEN /\ a_prim' = <<[ok |-> ok, text |-> text]>>
         /\ a_fb' = a_fb
         /\ IF ok
            THEN /\ a_ret' = <<AskAiPrimaryReturn(text, a_adapter)>>
                 /\ a_pc' = "done"
                 /\ LeaveAdapter
                 /\ UNCHANGED a_sleeps
            ELSE IF FallbackEnabled(a_args.fallback)
            THEN /\ a_ret' = a_ret
                 /\ a_pc' = "fallback"
                 /\ EnterAdapter(FallbackProvider(a_args.provider), None)
            ELSE /\ a_ret' = <<AskAiFailureReturn(text, a_args.provider)>>
                 /\ a_pc' = "done"
                 /\ LeaveAdapter
                 /\ UNCHANGED a_sleeps
    ELSE /\ a_fb' = <<[ok |-> ok, text |-> text]>>
         /\ a_prim' = a_prim
         /\ a_pc' = "done"
         /\ LeaveAdapter
         /\ UNCHANGED a_sleeps
         /\ a_ret' = IF ok
                     THEN <<AskAiFallbackReturn(text, FallbackProvider(a_args.provider))>>
                     ELSE <<AskAiFailureReturn(a_prim[1].text, a_args.provider)>>

\* one attempt of ask_ollama / _ask_ollama_http against the backend
ask_ollama_step(outcome, content) ==
    /\ a_pc \in {"primary", "fallback"}
    /\ a_adapter = "ollama"
    /\ outcome \in OllamaPathOutcomes(OLLAMA_LIB_AVAILABLE)
    /\ outcome # "ok" => content = ""
    /\ a_reqs' = Append(a_reqs, [adapter |-> "ollama", model |-> AI_MODEL])
    /\ LET r == ask_ollama_attempt(OLLAMA_LIB_AVAILABLE, a_attempt, outcome, content)
       IN  IF r.done
           THEN /\ ask_ai_resume(r.ok, r.text)
                /\ a_last' = IF a_pc' = "fallback" THEN None ELSE outcome
           ELSE /\ a_attempt' = a_attempt + 1
                /\ a_sleeps' = Append(a_sleeps, r.sleep)
                /\ a_last' = outcome
                /\ UNCHANGED <<a_pc, a_adapter, a_calls, a_prim, a_fb, a_ret>>
    /\ UNCHANGED <<OLLAMA_LIB_AVAILABLE, GEMINI_API_KEY, a_args>>
    /\ UNCHANGED notAsk

\* ask_gemini: the credential check, then the one request
ask_gemini_call(outcome, content) ==
    /\ a_pc \in {"primary", "fallback"}
    /\ a_adapter = "gemini"
    /\ outcome \in GeminiOutcomes
    /\ outcome # "ok" => content = ""
    /\ LET model == a_calls[Len(a_calls)].model
           use_model == GeminiUseModel(model)
       IN  IF ~GeminiKeyConfigured(GEMINI_API_KEY)
           THEN /\ outcome = "other_error"
                /\ a_reqs' = a_reqs
                /\ ask_ai_resume(FALSE, GeminiNoKeyMsg)
                /\ a_last' = None
           ELSE /\ a_reqs' = Append(a_reqs, [adapter |-> "gemini", model |-> use_model])
                /\ LET r == ask_gemini_result(outcome, content, use_model)
                   IN  ask_ai_resume(r.ok, r.text)
                /\ a_last' = IF a_pc' = "fallback" THEN None ELSE outcome
    /\ UNCHANGED <<OLLAMA_LIB_AVAILABLE, GEMINI_API_KEY, a_args>>
    /\ UNCHANGED notAsk

\* the caller takes the result; ask_ai can be called again
ask_ai_return ==
    /\ a_pc = "done"
    /\ a_pc' = "idle"
    /\ UNCHANGED <<OLLAMA_LIB_AVAILABLE, GEMINI_API_KEY, a_args, a_adapter,
                   a_attempt, a_sleeps, a_last, a_calls, a_reqs, a_prim, a_fb,
                   a_ret>>
    /\ UNCHANGED notAsk

InitAsk ==
    /\ OLLAMA_LIB_AVAILABLE \in BOOLEAN
    /\ GEMINI_API_KEY \in ApiKeys
    /\ a_pc = "idle"
    /\ a_args = [provider |-> "ollama", model |-> None, fallback |-> TRUE]
    /\ a_adapter = None
    /\ a_attempt = 0
    /\ a_sleeps = <<>>
    /\ a_last = None
    /\ a_calls = <<>>
    /\ a_reqs = <<>>
    /\ a_prim = <<>>
    /\ a_fb = <<>>
    /\ a_ret = <<>>

NextAsk ==
    \/ \E provider \in Providers, model \in Models, fallback \in BOOLEAN :
          ask_ai_call(provider, model, fallback)
    \/ \E outcome \in OllamaOutcomes, content \in Contents :
          ask_ollama_step(outcome, content)
    \/ \E outcome \in GeminiOutcomes, content \in Contents :
          ask_gemini_call(outcome, content)
    \/ ask_ai_return


(***************************************************************************)
(* Properties of ask_ai (gateway/ai_providers.py), checked under SpecAsk   *)
(***************************************************************************)
PrimaryFailed == a_prim # <<>> /\ ~a_prim[1].ok
PrimarySucceeded == a_prim # <<>> /\ a_prim[1].ok
FallbackFailed == a_fb # <<>> /\ ~a_fb[1].ok
FallbackSucceeded == a_fb # <<>> /\ a_fb[1].ok
Returned == a_ret # <<>>
KnownProviders == {"ollama", "gemini"}

\* C1: with fallback enabled, when the primary adapter fails and the
\* fallback adapter succeeds, ask_ai returns the fallback's text followed by
\* the fallback annotation, and provider_used is the adapter that ran as
\* fallback (the other one, when the primary was named ollama or gemini).
C1_FallbackResult ==
    (Returned /\ a_args.fallback /\ PrimaryFailed /\ FallbackSucceeded) =>
        /\ Len(a_calls) = 2
        /\ a_ret[1].provider = a_calls[2].adapter
        /\ a_ret[1].text =
              a_fb[1].text \o "\n\n*(Using " \o a_calls[2].adapter \o " as fallback)*"
        /\ a_args.provider \in KnownProviders =>
              a_ret[1].provider \in KnownProviders \ {a_args.provider}

C1_Witness ==
    /\ a_pc = "done" /\ a_args.fallback /\ PrimaryFailed /\ FallbackSucceeded
    /\ a_args.provider = "gemini" /\ a_ret[1].provider = "ollama"
    /\ a_fb[1].text = "4"

\* C2: with fallback disabled, a failed primary gives a failure result and
\* no second adapter call is ever made in that ask_ai call.
C2_NoFallback ==
    ~a_args.fallback =>
        /\ Len(a_calls) <= 1
        /\ a_pc # "fallback"
        /\ a_fb = <<>>
        /\ (Returned /\ PrimaryFailed) =>
              a_ret[1].text = "Error: " \o a_prim[1].text

C2_Witness ==
    /\ a_pc = "done" /\ ~a_args.fallback /\ PrimaryFailed
    /\ a_args.provider = "ollama" /\ GeminiKeyConfigured(GEMINI_API_KEY)

\* C3: when the primary adapter succeeds ask_ai has returned, in that same
\* step, the primary's text unannotated with the primary adapter's name, and
\* no other adapter was called.
C3_PrimarySuccess ==
    PrimarySucceeded =>
        /\ a_pc \in {"done", "idle"}
        /\ a_ret = <<[text |-> a_prim[1].text, provider |-> a_calls[1].adapter]>>
        /\ Len(a_calls) = 1
        /\ a_fb = <<>>

C3_Witness ==
    /\ a_pc = "done" /\ PrimarySucceeded /\ a_args.fallback
    /\ a_args.provider = "gemini" /\ a_ret[1].text = "4"

\* C4 (as claimed): when the primary fails and the fallback fails or is
\* disabled, ask_ai returns "Error: " followed by the primary's last error
\* message, and names the provider that was attempted as primary.
C4_FailureNamesPrimary ==
    (Returned /\ PrimaryFailed /\ ~FallbackSucceeded) =>
        /\ a_ret[1].text = "Error: " \o a_prim[1].text
        /\ a_ret[1].provider = a_calls[1].adapter

\* C5 (as claimed): ask_ai never returns an empty text or an empty provider
\* name, and a successful response names a provider of {ollama, gemini}.
C5_NeverEmpty ==
    Returned =>
        /\ a_ret[1].text # ""
        /\ a_ret[1].provider # ""
        /\ (PrimarySucceeded \/ FallbackSucceeded) =>
              a_ret[1].provider \in KnownProviders

(***************************************************************************)
(* Conversation memory: MemoryStore (gateway/database.py) and              *)
(* process_with_memory, query_ai_server and the REST and WebSocket command *)
(* handlers (gateway/server_enhanced.py).  Request tasks interleave at     *)
(* their awaits; each MemoryStore call is one transaction.                 *)
(***************************************************************************)
\* the request tasks the event loop runs: the tasks that serve a REST
\* request and those that serve a WebSocket connection
Tasks == {1, 2}
\* how many commands are accepted in one run
MaxCommands == 2
\* how many uuid4() values are drawn in one run
MaxUuids == 2

\* config["memory_context_length"]
memory_context_length == 10
\* config["max_response_length"], set low so that replies get truncated
max_response_length == 6

\* a key a JSON frame does not carry
Absent == "<absent>"

\* client ids a request can carry (None: no client_id given)
ClientIds == {None, "c1"}
\* the command texts a client sends: the gateway looks at a text only to
\* strip it and to cut the title, so the k-th accepted command carries the
\* k-th text (padded, as a client may send it); any command can be blank
CommandTexts ==
    <<" hello ",
      "again, with a text that is a good deal longer than fifty characters",
      "a third command">>
BlankText == "  "
\* what the backend's message.content can be, before strip()
RawContents == {" R2 is long ", " "}

\* str(uuid.uuid4())[:8]: the n-th value drawn, each one new
Uuid(n) == "id" \o ToString(n)

\* a session id no conversation was ever created for
StrangerSid == "ffff"

IdleTask ==
    [kind |-> "none", pc |-> "idle", client_id |-> None, conn_sid |-> None,
     text |-> "", session_id |-> None, context |-> <<>>, ai_response |-> "",
     turn |-> 0, sent |-> "none"]

\* ---- strings -------------------------------------------------------------
RECURSIVE LStrip(_)
LStrip(s) ==
    IF Len(s) > 0 /\ SubSeq(s, 1, 1) = " " THEN LStrip(SubSeq(s, 2, Len(s))) ELSE s

RECURSIVE RStrip(_)
RStrip(s) ==
    IF Len(s) > 0 /\ SubSeq(s, Len(s), Len(s)) = " "
    THEN RStrip(SubSeq(s, 1, Len(s) - 1)) ELSE s

\* a strip() that trims nothing
Strip_nothing(s) == s

\* str.strip()
Strip(s) == RStrip(LStrip(s))

\* 'not x' for an optional string
Falsy(x) == x = None \/ x = ""

\* ---- MemoryStore ---------------------------------------------------------
ConversationExists(session_id) ==
    \E c \in conversations : c.session_id = session_id

SessionMessages(session_id) ==
    SelectSeq(messages, LAMBDA m : m.session_id = session_id)

LastN(seq, n) ==
    IF Len(seq) <= n THEN seq ELSE SubSeq(seq, Len(seq) - n + 1, Len(seq))

Reverse(seq) == [i \in 1..Len(seq) |-> seq[Len(seq) - i + 1]]

\* 'order_by(Message.created_at.desc()).limit(limit)': the limit most recent
\* messages of the session, newest first
RecentMessages(session_id, limit) ==
    Reverse(LastN(SessionMessages(session_id), limit))

\* the rows as {role, content}
AsHistory(rows) ==
    [i \in 1..Len(rows) |-> [role |-> rows[i].role, content |-> rows[i].content]]

\* get_conversation_history without its 'reversed(messages)'
get_conversation_history_newest_first(session_id, limit) ==
    IF ~ConversationExists(session_id) THEN <<>>
    ELSE AsHistory(RecentMessages(session_id, limit))

\* a get_conversation_history that orders by created_at ascending: the
\* first limit messages of the session
get_conversation_history_first_rows(session_id, limit) ==
    IF ~ConversationExists(session_id) THEN <<>>
    ELSE LET rows == SessionMessages(session_id)
         IN  AsHistory(IF Len(rows) <= limit THEN rows ELSE SubSeq(rows, 1, limit))

\* MemoryStore.get_conversation_history: the limit most recent messages of
\* the session, oldest first, as {role, content}
get_conversation_history(session_id, limit) ==
    IF ~ConversationExists(session_id) THEN <<>>
    ELSE AsHistory(Reverse(RecentMessages(session_id, limit)))

\* MemoryStore.create_conversation commits unless the transaction fails;
\* session_id is unique
create_conversation_commits(session_id, fail) ==
    ~fail /\ ~ConversationExists(session_id)

create_conversation(client_id, session_id, title) ==
    /\ users' = users \cup {client_id}
    /\ conversations' = conversations \cup
          {[session_id |-> session_id, client_id |-> client_id, title |-> title]}

\* an add_message that does not look the conversation up
add_message_commits_unchecked(session_id, fail) == ~fail

\* MemoryStore.add_message commits unless the conversation is missing
\* (ValueError) or the transaction fails
add_message_commits(session_id, fail) ==
    ~fail /\ ConversationExists(session_id)

\* an add_message whose row sorts before the rows already stored
add_message_first(session_id, role, content, turn) ==
    messages' = <<[session_id |-> session_id, role |-> role,
                   content |-> content, turn |-> turn]>> \o messages

add_message(session_id, role, content, turn) ==
    messages' = Append(messages, [session_id |-> session_id, role |-> role,
                                  content |-> content, turn |-> turn])

\* ---- query_ai_server -----------------------------------------------------
\* 'ai_response[:max_length] + "..."' when longer than max_length
Truncate(ai_response) ==
    IF Len(ai_response) > max_response_length
    THEN SubSeq(ai_response, 1, max_response_length) \o "..."
    ELSE ai_response

QueryErrorText(e) == "I'm sorry, I couldn't process your request. Error: " \o e

\* what query_ai_server returns: the stripped, truncated content, or the
\* apology when anything raised
query_ai_server(outcome, content) ==
    IF outcome = "ok" THEN Truncate(Strip(content))
    ELSE QueryErrorText(ExcText(outcome))

\* ---- process_with_memory -------------------------------------------------
\* 'title=text[:50] + "..." if len(text) > 50 else text'
TitleOf(text) == IF Len(text) > 50 THEN SubSeq(text, 1, 50) \o "..." ELSE text

\* a process_with_memory that opens a session for every command
PwmDrawsUuid_always(session_id) == TRUE

\* whether entering process_with_memory draws a uuid: 'if not session_id'
\* (and 'session_id or str(uuid.uuid4())[:8]')
PwmDrawsUuid(session_id) == Falsy(session_id)

\* the task's locals when process_with_memory reaches its first await
PwmEnter(t, kind, client_id, conn_sid, text, session_id, turn) ==
    [kind |-> kind, client_id |-> client_id, conn_sid |-> conn_sid,
     text |-> text, context |-> <<>>, ai_response |-> "", turn |-> turn,
     sent |-> task[t].sent,
     session_id |-> IF PwmDrawsUuid(session_id) THEN Uuid(n_uuid + 1)
                    ELSE session_id,
     pc |-> IF ~memory_on THEN "query"
            ELSE IF PwmDrawsUuid(session_id) THEN "create" ELSE "history"]

NewTurn(client_id, text, session_id) ==
    [client_id |-> client_id, text |-> text, sid_in |-> session_id, sid |-> None, context |-> <<>>,
     reply |-> "", start |-> gclk + 1, end |-> 0, store_failed |-> FALSE,
     queried |-> FALSE, provider_ok |-> FALSE, raised |-> FALSE,
     answers |-> <<>>]

\* a new request is served by the first task that is free
FirstIdle(t) == task[t].pc = "idle" /\ \A u \in Tasks : task[u].pc = "idle" => t <= u

\* the texts the next command can carry
NextTexts ==
    {BlankText} \cup
    (IF Len(turns) < MaxCommands THEN {CommandTexts[Len(turns) + 1]} ELSE {})

\* the command is accepted and process_with_memory runs to its first await
AcceptCommand(t, transport, client_id, conn_sid, text, session_id) ==
    /\ Len(turns) < MaxCommands
    /\ PwmDrawsUuid(session_id) => n_uuid < MaxUuids
    /\ n_uuid' = IF PwmDrawsUuid(session_id) THEN n_uuid + 1 ELSE n_uuid
    /\ task' = [task EXCEPT ![t] =
          PwmEnter(t, transport, client_id, conn_sid, text, session_id,
                   Len(turns) + 1)]
    /\ turns' = Append(turns, NewTurn(client_id, text, session_id))
    /\ gclk' = gclk + 1

MarkStoreFailed(t) ==
    [turns EXCEPT ![task[t].turn].store_failed = TRUE]

\* where process_with_memory goes when a memory operation raised
PwmAfterStoreError == "query"

\* 'await MemoryStore.create_conversation(...)' of process_with_memory
pwm_create_conversation(t, fail) ==
    /\ task[t].pc = "create"
    /\ IF create_conversation_commits(task[t].session_id, fail)
       THEN /\ create_conversation(task[t].client_id, task[t].session_id,
                                   TitleOf(task[t].text))
            /\ task' = [task EXCEPT ![t].pc = "history"]
            /\ UNCHANGED turns
       ELSE /\ task' = [task EXCEPT ![t].pc = PwmAfterStoreError]
            /\ turns' = MarkStoreFailed(t)
            /\ UNCHANGED <<users, conversations>>
    /\ UNCHANGED <<memory_on, messages, n_uuid, active_connections, gclk>>
    /\ UNCHANGED notMem

\* 'context = await MemoryStore.get_conversation_history(...)'
pwm_get_history(t, fail) ==
    /\ task[t].pc = "history"
    /\ IF ~fail
       THEN /\ task' = [task EXCEPT
                  ![t].pc = "add_user",
                  ![t].context = get_conversation_history(
                                     task[t].session_id, memory_context_length)]
            /\ UNCHANGED turns
       ELSE /\ task' = [task EXCEPT ![t].pc = PwmAfterStoreError]
            /\ turns' = MarkStoreFailed(t)
    /\ UNCHANGED <<memory_on, users, conversations, messages, n_uuid,
                   active_connections, gclk>>
    /\ UNCHANGED notMem

\* 'await MemoryStore.add_message(session_id, "user", text)'
pwm_add_user_message(t, fail) ==
    /\ task[t].pc = "add_user"
    /\ IF add_message_commits(task[t].session_id, fail)
       THEN /\ add_message(task[t].session_id, "user", task[t].text, task[t].turn)
            /\ task' = [task EXCEPT ![t].pc = "query"]
            /\ UNCHANGED turns
       ELSE /\ task' = [task EXCEPT ![t].pc = PwmAfterStoreError]
            /\ turns' = MarkStoreFailed(t)
            /\ UNCHANGED messages
    /\ UNCHANGED <<memory_on, users, conversations, n_uuid,
                   active_connections, gclk>>
    /\ UNCHANGED notMem

\* 'ai_response = await query_ai_server(text, context)'
pwm_query_ai(t, outcome, content) ==
    /\ task[t].pc = "query"
    /\ outcome \in {"ok", "conn_error"}
    /\ outcome # "ok" => content = " "
    /\ LET ai_response == query_ai_server(outcome, content)
       IN  /\ task' = [task EXCEPT
                 ![t].ai_response = ai_response,
                 ![t].pc = IF memory_on THEN "add_reply" ELSE "respond"]
           /\ turns' = [turns EXCEPT
                 ![task[t].turn].queried = TRUE,
                 ![task[t].turn].provider_ok = (outcome = "ok"),
                 ![task[t].turn].context = task[t].context,
                 ![task[t].turn].sid = task[t].session_id,
                 ![task[t].turn].reply = ai_response]
    /\ UNCHANGED <<memory_on, users, conversations, messages, n_uuid,
                   active_connections, gclk>>
    /\ UNCHANGED notMem

\* process_with_memory without the try around the reply's add_message
ReplyErrorCaught_no == FALSE

\* whether the failure of the reply's add_message is caught
ReplyErrorCaught == TRUE

\* 'await MemoryStore.add_message(session_id, "assistant", ai_response)'
pwm_add_reply(t, fail) ==
    /\ task[t].pc = "add_reply"
    /\ IF add_message_commits(task[t].session_id, fail)
       THEN /\ add_message(task[t].session_id, "assistant", task[t].ai_response,
                           task[t].turn)
            /\ task' = [task EXCEPT ![t].pc = "respond"]
            /\ UNCHANGED turns
       ELSE /\ task' = [task EXCEPT
                  ![t].pc = IF ReplyErrorCaught THEN "respond" ELSE "raised"]
            /\ turns' = [MarkStoreFailed(t) EXCEPT
                  ![task[t].turn].raised = ~ReplyErrorCaught]
            /\ UNCHANGED messages
    /\ UNCHANGED <<memory_on, users, conversations, n_uuid,
                   active_connections, gclk>>
    /\ UNCHANGED notMem

\* ---- the transports ------------------------------------------------------
\* the success flag both transports put on the answer
ResponseSuccess == TRUE

ResponseFrame(type, text, session_id) ==
    [type |-> type, text |-> text, success |-> ResponseSuccess,
     session_id |-> session_id]

\* 'client_id = request.client_id or "anonymous"'
RestClientId(client_id) == IF Falsy(client_id) THEN "anonymous" ELSE client_id

\* POST /api/command: the checks of process_command, then
\* process_with_memory up to its first await
process_command(t, text, client_id, session_id) ==
    /\ FirstIdle(t)
    /\ IF Strip(text) = ""
       THEN /\ task' = [task EXCEPT ![t].sent = "http_400"]
            /\ UNCHANGED <<n_uuid, turns, gclk>>
       ELSE AcceptCommand(t, "rest", RestClientId(client_id), None, Strip(text),
                          session_id)
    /\ UNCHANGED <<memory_on, users, conversations, messages, active_connections>>
    /\ UNCHANGED notMem

\* process_with_memory returned: the handler answers
send_response(t) ==
    /\ task[t].pc = "respond"
    /\ LET frame == ResponseFrame("response", task[t].ai_response, task[t].session_id)
       IN  /\ task' = [task EXCEPT ![t] =
                 IF task[t].kind = "rest"
                 THEN IdleTask
                 ELSE [task[t] EXCEPT
                         !.pc = "ws_loop",
                         !.sent = "response",
                         !.conn_sid = IF Falsy(task[t].conn_sid)
                                      THEN task[t].session_id
                                      ELSE task[t].conn_sid]]
           /\ turns' = [turns EXCEPT
                 ![task[t].turn].answers = Append(@, frame),
                 ![task[t].turn].end = gclk + 1]
    /\ gclk' = gclk + 1
    /\ UNCHANGED <<memory_on, users, conversations, messages, n_uuid,
                   active_connections>>
    /\ UNCHANGED notMem

\* 'client_id = init_data.get("client_id", f"client_{id(websocket)}")'
WsClientId(t, client_id) ==
    IF client_id = None THEN "client_" \o ToString(t) ELSE client_id

\* /ws: accept, the handshake frame, the registration
websocket_connect(t, client_id, session_id) ==
    /\ FirstIdle(t)
    /\ Falsy(session_id) /\ memory_on => n_uuid < MaxUuids
    /\ LET cid == WsClientId(t, client_id)
           draws == Falsy(session_id) /\ memory_on
       IN  /\ task' = [task EXCEPT ![t] =
                 [IdleTask EXCEPT
                    !.kind = "ws",
                    !.client_id = cid,
                    !.conn_sid = IF draws THEN Uuid(n_uuid + 1) ELSE session_id,
                    !.pc = IF draws THEN "ws_create" ELSE "ws_welcome"]]
           /\ n_uuid' = IF draws THEN n_uuid + 1 ELSE n_uuid
           /\ active_connections' = [active_connections EXCEPT ![cid] = <<t>>]
    /\ UNCHANGED <<memory_on, users, conversations, messages, turns, gclk>>
    /\ UNCHANGED notMem

\* 'await MemoryStore.create_conversation(client_id, session_id)' at connect
ws_create_session(t, fail) ==
    /\ task[t].pc = "ws_create"
    /\ IF create_conversation_commits(task[t].conn_sid, fail)
       THEN create_conversation(task[t].client_id, task[t].conn_sid, None)
       ELSE UNCHANGED <<users, conversations>>
    /\ task' = [task EXCEPT ![t].pc = "ws_welcome"]
    /\ UNCHANGED <<memory_on, messages, n_uuid, active_connections, turns, gclk>>
    /\ UNCHANGED notMem

\* the welcome frame
ws_welcome(t) ==
    /\ task[t].pc = "ws_welcome"
    /\ task' = [task EXCEPT
          ![t].pc = "ws_loop",
          ![t].sent = "connected"]
    /\ UNCHANGED <<memory_on, users, conversations, messages, n_uuid,
                   active_connections, turns, gclk>>
    /\ UNCHANGED notMem

\* a "ping" frame
ws_ping(t) ==
    /\ task[t].pc = "ws_loop"
    /\ task' = [task EXCEPT ![t].sent = "pong"]
    /\ UNCHANGED <<memory_on, users, conversations, messages, n_uuid,
                   active_connections, turns, gclk>>
    /\ UNCHANGED notMem

\* 'msg_session_id = data.get("session_id", session_id)'
WsMessageSid(session_id, conn_sid) ==
    IF session_id = Absent THEN conn_sid ELSE session_id

\* a "command" frame
ws_command(t, text, session_id) ==
    /\ task[t].pc = "ws_loop"
    /\ IF Strip(text) = ""
       THEN /\ task' = [task EXCEPT
                  ![t].sent = "error"]
            /\ UNCHANGED <<n_uuid, turns, gclk>>
       ELSE AcceptCommand(t, "ws", task[t].client_id, task[t].conn_sid,
                          Strip(text), WsMessageSid(session_id, task[t].conn_sid))
    /\ UNCHANGED <<memory_on, users, conversations, messages, active_connections>>
    /\ UNCHANGED notMem

\* a "new_session" frame
ws_new_session(t, fail) ==
    /\ task[t].pc = "ws_loop"
    /\ n_uuid < MaxUuids
    /\ n_uuid' = n_uuid + 1
    /\ IF memory_on /\ create_conversation_commits(Uuid(n_uuid + 1), fail)
       THEN create_conversation(task[t].client_id, Uuid(n_uuid + 1), None)
       ELSE UNCHANGED <<users, conversations>>
    /\ ~memory_on => ~fail
    /\ task' = [task EXCEPT
          ![t].conn_sid = Uuid(n_uuid + 1),
          ![t].sent = "session_created"]
    /\ UNCHANGED <<memory_on, messages, active_connections, turns, gclk>>
    /\ UNCHANGED notMem

\* ConnectionManager.disconnect
manager_disconnect(client_id) ==
    [active_connections EXCEPT ![client_id] = <<>>]

\* a "disconnect" frame or WebSocketDisconnect while waiting for a frame:
\* the finally clause
ws_disconnect(t) ==
    /\ task[t].pc = "ws_loop"
    /\ active_connections' = manager_disconnect(task[t].client_id)
    /\ task' = [task EXCEPT ![t] = IdleTask]
    /\ UNCHANGED <<memory_on, users, conversations, messages, n_uuid, turns, gclk>>
    /\ UNCHANGED notMem

\* every client id a task can carry
AllClientIds ==
    (ClientIds \ {None}) \cup {"anonymous"} \cup {WsClientId(t, None) : t \in Tasks}

\* the session ids a client can put in a request
RequestSids == {None, StrangerSid} \cup {Uuid(n) : n \in 1..MaxUuids}

InitMem ==
    /\ memory_on \in BOOLEAN
    /\ users = {}
    /\ conversations = {}
    /\ messages = <<>>
    /\ n_uuid = 0
    /\ task = [t \in Tasks |-> IdleTask]
    /\ active_connections = [c \in AllClientIds |-> <<>>]
    /\ turns = <<>>
    /\ gclk = 0

\* a client only sends a session id it was given
KnownSid(session_id) ==
    session_id \in {None, StrangerSid, Absent} \/
    \E n \in 1..n_uuid : session_id = Uuid(n)

\* the steps of process_with_memory, whichever transport called it
NextPwm ==
    \/ \E t \in Tasks, fail \in BOOLEAN : pwm_create_conversation(t, fail)
    \/ \E t \in Tasks, fail \in BOOLEAN : pwm_get_history(t, fail)
    \/ \E t \in Tasks, fail \in BOOLEAN : pwm_add_user_message(t, fail)
    \/ \E t \in Tasks, outcome \in OllamaOutcomes, content \in RawContents :
          pwm_query_ai(t, outcome, content)
    \/ \E t \in Tasks, fail \in BOOLEAN : pwm_add_reply(t, fail)
    \/ \E t \in Tasks : send_response(t)

\* commands over REST
NextRest ==
    \/ \E t \in Tasks, text \in NextTexts, client_id \in ClientIds,
          session_id \in RequestSids :
          KnownSid(session_id) /\ process_command(t, text, client_id, session_id)
    \/ NextPwm

\* commands over WebSocket connections
NextWs ==
    \/ \E t \in Tasks, client_id \in ClientIds, session_id \in RequestSids :
          KnownSid(session_id) /\ websocket_connect(t, client_id, session_id)
    \/ \E t \in Tasks, fail \in BOOLEAN : ws_create_session(t, fail)
    \/ \E t \in Tasks : ws_welcome(t)
    \/ \E t \in Tasks : ws_ping(t)
    \/ \E t \in Tasks, text \in NextTexts, session_id \in RequestSids \cup {Absent} :
          KnownSid(session_id) /\ ws_command(t, text, session_id)
    \/ \E t \in Tasks, fail \in BOOLEAN : ws_new_session(t, fail)
    \/ \E t \in Tasks : ws_disconnect(t)
    \/ NextPwm

(***************************************************************************)
(* Claims C6 to C9: the transcript of a session and the answer to a        *)
(* command.                                                                *)
(***************************************************************************)
\* the stored messages of a session, in order, as {role, content}
Transcript(session_id) == AsHistory(SessionMessages(session_id))

Msg(role, content) == [role |-> role, content |-> content]

\* process_with_memory has returned for turn k
TurnReturned(k) == turns[k].end > 0

\* turn i opened a session, turn j continued it after turn i had returned,
\* no store operation failed in either, and no other command names the session
TwoCallsInOrder(i, j) ==
    /\ memory_on
    /\ i # j
    /\ Falsy(turns[i].sid_in) /\ TurnReturned(i) /\ ~turns[i].store_failed
    /\ turns[j].sid_in = turns[i].sid
    /\ turns[j].start > turns[i].end
    /\ TurnReturned(j) /\ ~turns[j].store_failed
    /\ \A k \in 1..Len(turns) : k \notin {i, j} => turns[k].sid_in # turns[i].sid

\* C6: after a first call without session id returned S and R1 and a second
\* call on S returned R2, with the store available, the messages stored for
\* S are exactly [user first text, assistant R1, user second text,
\* assistant R2], and the history given to the provider on the second call
\* was [user first text, assistant R1].
C6_SessionOrdering ==
    \A i \in 1..Len(turns), j \in 1..Len(turns) :
        TwoCallsInOrder(i, j) =>
            /\ Transcript(turns[i].sid) =
                  << Msg("user", turns[i].text), Msg("assistant", turns[i].reply),
                     Msg("user", turns[j].text), Msg("assistant", turns[j].reply) >>
            /\ turns[j].context =
                  << Msg("user", turns[i].text), Msg("assistant", turns[i].reply) >>

C6_Witness ==
    /\ Len(turns) = 2
    /\ TwoCallsInOrder(1, 2)
    /\ turns[1].text = "hello" /\ turns[2].text = CommandTexts[2]
    /\ Len(SessionMessages(turns[1].sid)) = 4
    /\ turns[1].reply # turns[2].reply

\* C7 (as claimed): in every state of the store, every assistant reply of a
\* session's transcript has the user prompt of its own turn stored before
\* it, whichever store operations failed.
C7_ReplyAfterPrompt ==
    \A i \in 1..Len(messages) :
        messages[i].role = "assistant" =>
            \E j \in 1..(i - 1) :
                /\ messages[j].role = "user"
                /\ messages[j].session_id = messages[i].session_id
                /\ messages[j].turn = messages[i].turn

\* C8: no failure of create_conversation, get_conversation_history or
\* add_message aborts the turn: process_with_memory never raises, and when
\* it has returned the AI was queried and the session id is not empty.
C8_MemoryFailureNeverAborts ==
    /\ \A t \in Tasks :
          /\ task[t].pc # "raised"
          /\ task[t].pc = "respond" =>
                /\ turns[task[t].turn].queried
                /\ ~Falsy(task[t].session_id)
    /\ \A k \in 1..Len(turns) :
          /\ ~turns[k].raised
          /\ \A n \in 1..Len(turns[k].answers) :
                /\ turns[k].queried
                /\ ~Falsy(turns[k].answers[n].session_id)

C8_Witness ==
    \E k \in 1..Len(turns) :
        /\ turns[k].store_failed
        /\ ~ConversationExists(turns[k].sid)
        /\ turns[k].queried
        /\ Len(turns[k].answers) = 1

\* C9 (as claimed): the answer to an accepted command is one message, and
\* its text is not empty, whatever the provider and the store did.
C9_AnswerHasText ==
    \A k \in 1..Len(turns) :
        /\ Len(turns[k].answers) <= 1
        /\ \A n \in 1..Len(turns[k].answers) : turns[k].answers[n].text # ""

(***************************************************************************)
(* The company context and its caches: load_company_context of             *)
(* gateway/server.py and of gateway/documents.py, and the handlers that    *)
(* change the document store.  None of these functions awaits between its  *)
(* first and last statement, so each call is one step.                     *)
(***************************************************************************)
CONTEXT_CACHE_TTL == 60
\* config.cache["ttl"]
cache_ttl == CONTEXT_CACHE_TTL

\* the clock when the process starts, and where the run stops
StartTime == 1000
MaxTime == 1060
\* how far the clock moves between two calls
TickSteps == {CONTEXT_CACHE_TTL \div 2, CONTEXT_CACHE_TTL - 1}

\* the files the two directories can hold, in sorted order
CompanyNames == <<"config.json", "notes.md">>
UploadNames == <<"a.txt">>
\* what a document can contain
FileContents == {"", "doc", "[1]"}
\* the text of config.json
ConfigJson == "{}"

Range(seq) == {seq[i] : i \in 1..Len(seq)}

\* 'not x' is false
Truthy(x) == x # None /\ x # ""

Present(dir) == {n \in DOMAIN dir : dir[n] # Absent}

\* the orders in which rglob("*") can yield the files of a directory
Listings(dir) ==
    {l \in [1..Cardinality(Present(dir)) -> Present(dir)] :
        \A i, j \in DOMAIN l : i # j => l[i] # l[j]}

\* sorted(rglob("*"))
SortedListing(dir, names) == SelectSeq(names, LAMBDA n : dir[n] # Absent)

\* sep.join(parts)
RECURSIVE Join(_, _)
Join(parts, sep) ==
    IF parts = <<>> THEN ""
    ELSE IF Len(parts) = 1 THEN parts[1]
    ELSE parts[1] \o sep \o Join(Tail(parts), sep)

\* ---- server.py -----------------------------------------------------------
\* the two lines read from config.json ('{}' gives the defaults)
ConfigParts ==
    IF company_info["config.json"] # Absent
    THEN <<"Company: Unknown", "Assistant Name: Nora">>
    ELSE <<>>

\* 'if content and not content.startswith("[")'
ServerKeeps(content) == content # "" /\ ~StartsWith(content, "[")

ServerFilePart(label, name, content) ==
    "\n--- " \o label \o name \o " ---\n" \o content

ServerDirParts(dir, listing, label) ==
    LET kept == SelectSeq(listing, LAMBDA n : ServerKeeps(dir[n]))
    IN  [i \in 1..Len(kept) |-> ServerFilePart(label, kept[i], dir[kept[i]])]

\* the blob server.py builds when the directories are listed as l1 and l2
BuildServerContext(l1, l2) ==
    Join(ConfigParts \o ServerDirParts(company_info, l1, "")
                     \o ServerDirParts(uploads, l2, "Uploaded: "), "\n")

\* the test of line 226 without its 'not force_refresh'
ServerCacheHit_ignoring_force(force_refresh) ==
    /\ Truthy(context_cache.content)
    /\ now - context_cache.timestamp < CONTEXT_CACHE_TTL

\* the test of line 226
ServerCacheHit(force_refresh) ==
    /\ ~force_refresh
    /\ Truthy(context_cache.content)
    /\ now - context_cache.timestamp < CONTEXT_CACHE_TTL

\* what is kept of a call: whether it came within TTL of the cache's
\* timestamp, what the cache held, whether that is what it returned, and
\* whether it read the document store
LastCall(fn, force_refresh, timestamp, cached, result, read) ==
    [fn |-> fn, force_refresh |-> force_refresh,
     within_ttl |-> now - timestamp < CONTEXT_CACHE_TTL,
     cached |-> cached, returned_cached |-> result = cached, read |-> read]

\* the two context providers
Fns == {"server", "documents"}

\* what the cache of a provider holds, which is what its last call returned
CachedBy(fn) ==
    IF fn = "server" THEN context_cache.content
    ELSE IF doc_cache.data = <<>> THEN None ELSE doc_cache.data[1]

\* this call and the call before it are two calls of the same provider
\* without force_refresh, less than TTL apart, with no change of the
\* document store between them
PairApplies(fn, force_refresh) ==
    /\ ctx_last.fn = fn
    /\ ~ctx_last.force_refresh /\ ~force_refresh
    /\ now - ctx_hist.at < CONTEXT_CACHE_TTL
    /\ ~ctx_hist.changed

\* the history after a call that returned result, from the cache or not
AfterCall(fn, force_refresh, hit, result) ==
    [at |-> now,
     changed |-> FALSE,
     stale |-> [ctx_hist.stale EXCEPT ![fn] = IF hit THEN @ ELSE FALSE],
     stale_hit |-> hit /\ ctx_hist.stale[fn],
     pair |-> IF ~PairApplies(fn, force_refresh) THEN "none"
              ELSE IF result = CachedBy(fn) THEN "same" ELSE "differ"]

\* the providers that read a directory
ReadersOf(directory) ==
    IF directory = "company_info" THEN Fns ELSE {"server"}

\* the history after a file of the directory was written or removed
AfterChange(directory) ==
    [ctx_hist EXCEPT
        !.changed = TRUE,
        !.stale = [fn \in Fns |-> @[fn] \/ fn \in ReadersOf(directory)]]

\* the cache after line 265 alone: the new content beside the timestamp of
\* the regeneration before
ServerCacheEntry_content_only(result) ==
    [content |-> result, timestamp |-> context_cache.timestamp]

\* the cache after lines 265-266, which no await separates
ServerCacheEntry(result) == [content |-> result, timestamp |-> now]

\* server.py load_company_context(force_refresh)
ServerLoad(force_refresh, l1, l2) ==
    /\ l1 \in Listings(company_info)
    /\ l2 \in Listings(uploads)
    /\ IF ServerCacheHit(force_refresh)
       THEN /\ UNCHANGED context_cache
            /\ ctx_hist' = AfterCall("server", force_refresh, TRUE,
                                     context_cache.content)
            /\ ctx_last' = LastCall("server", force_refresh,
                                    context_cache.timestamp, context_cache.content,
                                    context_cache.content, FALSE)
       ELSE LET result == BuildServerContext(l1, l2)
            IN  /\ context_cache' = ServerCacheEntry(result)
                /\ ctx_hist' = AfterCall("server", force_refresh, FALSE, result)
                /\ ctx_last' = LastCall("server", force_refresh,
                                        context_cache.timestamp,
                                        context_cache.content, result, TRUE)
    /\ UNCHANGED <<now, company_info, uploads, doc_cache>>

\* a call of server.py's load_company_context on its own (GET /stats, or a
\* direct call, the only kind that passes force_refresh)
server_load_company_context(force_refresh, l1, l2) ==
    /\ ServerLoad(force_refresh, l1, l2)
    /\ UNCHANGED notCtx

\* the file a POST /files/upload writes: the name, or the stem with "_1"
\* when the name is taken
Renamed(name) ==
    IF name = "a.txt" THEN "a_1.txt"
    ELSE IF name = "notes.md" THEN "notes_1.md"
    ELSE name \o "_1"

UploadTarget(dir, name) == IF dir[name] = Absent THEN name ELSE Renamed(name)

\* the upload writes one of the files that are followed here
UploadFollowed(dir, name) == UploadTarget(dir, name) \in DOMAIN dir

\* POST /files/upload
upload_file(directory, name, content) ==
    /\ IF directory = "company_info"
       THEN /\ name = "notes.md"
            /\ UploadFollowed(company_info, name)
            /\ company_info' =
                  [company_info EXCEPT ![UploadTarget(company_info, name)] = content]
            /\ UNCHANGED uploads
       ELSE /\ name = "a.txt"
            /\ UploadFollowed(uploads, name)
            /\ uploads' = [uploads EXCEPT ![UploadTarget(uploads, name)] = content]
            /\ UNCHANGED company_info
    /\ ctx_hist' = AfterChange(directory)
    /\ UNCHANGED <<now, context_cache, doc_cache, ctx_last>>
    /\ UNCHANGED notCtx

\* DELETE /files/delete/{directory}/{filename}
delete_file(directory, filename) ==
    /\ IF directory = "company_info"
       THEN /\ filename \in Present(company_info)
            /\ filename # "config.json"
            /\ company_info' = [company_info EXCEPT ![filename] = Absent]
            /\ UNCHANGED uploads
       ELSE /\ filename \in Present(uploads)
            /\ uploads' = [uploads EXCEPT ![filename] = Absent]
            /\ UNCHANGED company_info
    /\ ctx_hist' = AfterChange(directory)
    /\ UNCHANGED <<now, context_cache, doc_cache, ctx_last>>
    /\ UNCHANGED notCtx

\* ---- documents.py --------------------------------------------------------
DocTimestamp ==
    IF doc_cache.timestamps = <<>> THEN 0 ELSE doc_cache.timestamps[1]

\* the test of lines 75-78
DocCacheHit ==
    /\ doc_cache.data # <<>>
    /\ DocTimestamp > 0
    /\ now - DocTimestamp < cache_ttl

\* 'if content and not content.startswith("[Binary") and not ...("[Error")'
DocKeeps(content) ==
    /\ content # ""
    /\ ~StartsWith(content, "[Binary")
    /\ ~StartsWith(content, "[Error")

DocPart(name, content) == "=== " \o name \o " ===\n" \o content

\* the blob documents.py builds
BuildDocContext ==
    LET kept == SelectSeq(SortedListing(company_info, CompanyNames),
                          LAMBDA n : DocKeeps(company_info[n]))
    IN  Join([i \in 1..Len(kept) |-> DocPart(kept[i], company_info[kept[i]])],
             "\n\n")

\* documents.py load_company_context()
documents_load_company_context ==
    /\ IF DocCacheHit
       THEN /\ UNCHANGED doc_cache
            /\ ctx_hist' = AfterCall("documents", FALSE, TRUE, doc_cache.data[1])
            /\ ctx_last' = LastCall("documents", FALSE, DocTimestamp,
                                    doc_cache.data[1], doc_cache.data[1], FALSE)
       ELSE /\ doc_cache' = [data |-> <<BuildDocContext>>, timestamps |-> <<now>>]
            /\ ctx_hist' = AfterCall("documents", FALSE, FALSE, BuildDocContext)
            /\ ctx_last' = LastCall("documents", FALSE, DocTimestamp,
                                    IF doc_cache.data = <<>> THEN None
                                    ELSE doc_cache.data[1],
                                    BuildDocContext, TRUE)
    /\ UNCHANGED <<now, company_info, uploads, context_cache>>
    /\ UNCHANGED notCtx

\* documents.py save_uploaded_file(filename, content): the write, then
\* the entry is dropped from the cache
save_uploaded_file(filename, content) ==
    /\ filename = "notes.md"
    /\ company_info' = [company_info EXCEPT ![filename] = content]
    /\ doc_cache' = IF doc_cache.data # <<>>
                    THEN [data |-> <<>>, timestamps |-> <<>>]
                    ELSE doc_cache
    /\ ctx_hist' = AfterChange("company_info")
    /\ UNCHANGED <<now, uploads, context_cache, ctx_last>>
    /\ UNCHANGED notCtx

\* time passes
Tick(d) ==
    /\ now + d <= MaxTime
    /\ now' = now + d
    /\ UNCHANGED <<company_info, uploads, context_cache, doc_cache, ctx_last,
                   ctx_hist>>
    /\ UNCHANGED notCtx

InitCtx ==
    /\ now = StartTime
    /\ company_info \in {[n \in Range(CompanyNames) |->
                            IF n = "config.json" THEN c ELSE Absent] :
                         c \in {Absent, ConfigJson}}
    /\ uploads = [n \in Range(UploadNames) |-> Absent]
    /\ context_cache = [content |-> None, timestamp |-> 0]
    /\ doc_cache = [data |-> <<>>, timestamps |-> <<>>]
    /\ ctx_last = [fn |-> "none", force_refresh |-> FALSE, within_ttl |-> FALSE,
                   cached |-> None, returned_cached |-> FALSE, read |-> FALSE]
    /\ ctx_hist = [at |-> 0, changed |-> FALSE, stale |-> [fn \in Fns |-> FALSE],
                   stale_hit |-> FALSE, pair |-> "none"]

NextCtx ==
    \/ \E d \in TickSteps : Tick(d)
    \/ \E force_refresh \in BOOLEAN,
          l1 \in Listings(company_info), l2 \in Listings(uploads) :
          server_load_company_context(force_refresh, l1, l2)
    \/ documents_load_company_context
    \/ \E directory \in {"company_info", "uploads"},
          name \in {"notes.md", "a.txt"}, content \in FileContents :
          upload_file(directory, name, content)
    \/ \E directory \in {"company_info", "uploads"},
          filename \in Range(CompanyNames) \cup Range(UploadNames) :
          delete_file(directory, filename)
    \/ \E content \in FileContents : save_uploaded_file("notes.md", content)

(***************************************************************************)
(* Claim C10: the cache hit.                                               *)
(***************************************************************************)
\* the last call was within TTL of the cache's timestamp and did not force
\* a refresh
WithinTtlCall ==
    /\ ctx_last.fn # "none"
    /\ ~ctx_last.force_refresh
    /\ ctx_last.within_ttl

\* C10 (as claimed): a call of load_company_context with force_refresh
\* false and now - cache.timestamp < TTL returns the cached content
\* unchanged and reads no document, whatever the cached content is.
C10_CacheHit ==
    WithinTtlCall =>
        /\ ctx_last.returned_cached
        /\ ~ctx_last.read

(***************************************************************************)
(* Claims C11 to C14: the context providers against time and against the   *)
(* changes of the document store.                                          *)
(***************************************************************************)
\* C11 (as claimed): two calls of a context provider without force_refresh,
\* less than TTL seconds apart and with no change of the document store
\* between them, return the same content.
C11_Idempotent == ctx_hist.pair # "differ"

\* the blobs a rebuild of server.py can produce from the store as it is
FreshBlobs ==
    {BuildServerContext(l1, l2) :
        l1 \in Listings(company_info), l2 \in Listings(uploads)}

\* this step is a call load_company_context(force_refresh=True) of server.py
ForceCallStep ==
    /\ ctx_last'.fn = "server" /\ ctx_last'.force_refresh
    /\ ~ctx_hist'.changed
    /\ now' = now
    /\ <<ctx_last, ctx_hist, context_cache>>' # <<ctx_last, ctx_hist, context_cache>>

\* C12: a call with force_refresh true reads the document store whatever
\* the age and the content of the cache, and leaves the cache holding the
\* blob built from the store as it is, with a timestamp that is the time of
\* the call and not earlier than the timestamp it replaces.
C12_ForceRefresh ==
    [][ForceCallStep =>
          /\ ctx_last'.read
          /\ context_cache'.content \in FreshBlobs
          /\ context_cache'.timestamp = now
          /\ context_cache'.timestamp >= context_cache.timestamp]_vars

C12_Witness ==
    /\ ctx_last.fn = "server" /\ ctx_last.force_refresh
    /\ ctx_last.within_ttl /\ Truthy(ctx_last.cached)
    /\ ctx_last.read /\ ~ctx_last.returned_cached
    /\ context_cache.timestamp = now /\ now > StartTime

\* C13 (as claimed): after an upload or a delete of a file, no context read
\* returns the content that was cached before the change.
C13_InvalidatedOnChange == ~ctx_hist.stale_hit

\* this step is a rebuild by server.py's provider: the whole blob and the
\* time of the call are put in the cache together
ServerReplaceStep ==
    /\ company_info' = company_info /\ uploads' = uploads
    /\ ctx_last'.fn = "server" /\ ctx_last'.read
    /\ context_cache'.content \in FreshBlobs
    /\ context_cache'.timestamp = now

\* the same for documents.py's provider
DocReplaceStep ==
    /\ company_info' = company_info /\ uploads' = uploads
    /\ ctx_last'.fn = "documents" /\ ctx_last'.read
    /\ doc_cache' = [data |-> <<BuildDocContext>>, timestamps |-> <<now>>]

\* this step is save_uploaded_file dropping the entry, content and
\* timestamp together
DocDropStep ==
    /\ ctx_hist'.changed
    /\ doc_cache' = [data |-> <<>>, timestamps |-> <<>>]

\* C14 (as claimed): a context cache is changed only by its context
\* provider, and only by a replace of content and timestamp together.
C14_OnlyProviderMutates ==
    [][/\ context_cache' # context_cache => ServerReplaceStep
       /\ doc_cache' # doc_cache => DocReplaceStep]_vars

\* C14 (amended): a context cache is given a content only by its context
\* provider, which replaces content and timestamp in one step, so that no
\* step of another request sees one without the other; the one other change
\* is save_uploaded_file's removal of documents.py's entry, content and
\* timestamp together.
C14_AtomicReplace ==
    [][/\ context_cache' # context_cache => ServerReplaceStep
       /\ doc_cache' # doc_cache => (DocReplaceStep \/ DocDropStep)]_vars

C14_Witness ==
    /\ Truthy(context_cache.content)
    /\ context_cache.timestamp > StartTime
    /\ doc_cache.data # <<>>
    /\ doc_cache.timestamps # <<>>
    /\ doc_cache.timestamps[1] > context_cache.timestamp
    /\ ctx_hist.stale["server"]

(***************************************************************************)
(* Streaming: stream_ai, stream_ollama, _stream_ollama_http and            *)
(* stream_gemini (gateway/ai_providers.py).  A generator runs from one     *)
(* yield to the next; between two yields it awaits the backend, whose      *)
(* next event is an input.  The consumer either asks for the next chunk or *)
(* abandons the generator, which the event loop then closes.               *)
(***************************************************************************)
\* the calls of stream_ai that are followed
StreamIds == {1, 2}
\* how many chunks a backend delivers, and how many lines it sends
MaxChunks == 2
MaxLines == 3

\* the text of a chunk the backend delivers
ChunkText == "Hi"

\* the generator function that does the work
StreamPath(provider) ==
    IF provider = "gemini" THEN "gemini"
    ELSE IF OLLAMA_LIB_AVAILABLE THEN "lib" ELSE "http"

\* what opening the request can end in: the stream begins, an error status
\* (which the ollama library raises), or an exception
OpenOutcomes(path) ==
    IF path = "lib" THEN {"ok", "conn_error"}
    ELSE {"ok", "bad_status", "conn_error"}

\* what the backend can send next once the stream has begun:
\*   chunk       a message with a text
\*   empty       a message whose text is empty
\*   malformed   a line that is no JSON
\*   error_line  a JSON line that reports an error and holds no message
\*   conn_error  the connection breaks, the library raises
\*   end         the stream ends
ReadEvents(path) ==
    IF path = "lib" THEN {"chunk", "empty", "conn_error", "end"}
    ELSE {"chunk", "empty", "malformed", "error_line", "conn_error", "end"}

\* 'yield f"\n\n[Error: {str(e)}]"'
StreamExcChunk(e) == "\n\n[Error: " \o ExcText(e) \o "]"

\* the chunk for a status that is not 200: '[Error: HTTP 500]' and
\* '[Error: 500 - <body>]'
StreamStatusChunk(path) ==
    IF path = "gemini" THEN "[Error: 500 - internal]" ELSE "[Error: HTTP 500]"

StreamNoKeyChunk == "[Error: Gemini API key not configured]"

\* the exceptions the handlers around the yields catch: 'except Exception'
\* with a handler that catches everything
StreamHandlerClass_base == "BaseException"

StreamHandlerClass == "Exception"

\* whether 'except <class>' catches the exception
Catches(class, exc) ==
    class = "BaseException" \/ (class = "Exception" /\ exc # "GeneratorExit")

\* what an empty message makes the generator yield: the library path tests
\* 'chunk.message.content', the others yield the text as it is
YieldsEmpty(path) == path # "lib"

NoStream ==
    [pc |-> "idle", path |-> None, out |-> <<>>, session |-> "none",
     lines |-> 0, failed |-> FALSE]

\* the aiohttp session once the generator has left its 'async with'
Left(session) == IF session = "open" THEN "closed" ELSE session

\* stream_ai(provider=...), run to its first await or yield
stream_ai_call(i, provider) ==
    /\ st[i].pc = "idle"
    /\ \A j \in StreamIds : j < i => st[j].pc # "idle"
    /\ LET path == StreamPath(provider)
       IN  st' = [st EXCEPT ![i] =
              IF path = "gemini" /\ ~GeminiKeyConfigured(GEMINI_API_KEY)
              THEN [NoStream EXCEPT !.path = path, !.pc = "at_error",
                                    !.out = <<StreamNoKeyChunk>>, !.failed = TRUE]
              ELSE [NoStream EXCEPT !.path = path, !.pc = "open"]]
    /\ UNCHANGED notStream

\* 'await client.chat(...)' / 'async with session.post(...) as response'
stream_open(i, outcome) ==
    /\ st[i].pc = "open"
    /\ outcome \in OpenOutcomes(st[i].path)
    /\ st' = [st EXCEPT ![i] =
          CASE outcome = "ok" ->
                 [@ EXCEPT !.pc = "reading",
                           !.session = IF st[i].path = "lib" THEN "none" ELSE "open"]
            [] outcome = "bad_status" ->
                 [@ EXCEPT !.pc = "at_error", !.session = "open",
                           !.out = Append(@, StreamStatusChunk(st[i].path)),
                           !.failed = TRUE]
            [] OTHER ->
                 [@ EXCEPT !.pc = "at_error",
                           !.session = IF st[i].path = "lib" THEN "none" ELSE "closed",
                           !.out = Append(@, StreamExcChunk(outcome)),
                           !.failed = TRUE]]
    /\ UNCHANGED notStream

\* the consumer asks for the next chunk and the loop body runs on the
\* backend's next event
stream_read(i, event) ==
    /\ st[i].pc \in {"reading", "at_chunk"}
    /\ event \in ReadEvents(st[i].path)
    /\ event \notin {"end", "conn_error"} => st[i].lines < MaxLines
    /\ event = "chunk" => Len(st[i].out) < MaxChunks
    /\ st' = [st EXCEPT ![i] =
          CASE event = "chunk" ->
                 [@ EXCEPT !.pc = "at_chunk", !.lines = @ + 1,
                           !.out = Append(@, ChunkText)]
            [] event = "empty" ->
                 IF YieldsEmpty(st[i].path)
                 THEN [@ EXCEPT !.pc = "at_chunk", !.lines = @ + 1,
                                !.out = Append(@, "")]
                 ELSE [@ EXCEPT !.pc = "reading", !.lines = @ + 1]
            [] event = "malformed" ->
                 [@ EXCEPT !.pc = "reading", !.lines = @ + 1]
            [] event = "error_line" ->
                 [@ EXCEPT !.pc = "reading", !.lines = @ + 1, !.failed = TRUE]
            [] event = "conn_error" ->
                 IF Catches(StreamHandlerClass, "ClientError")
                 THEN [@ EXCEPT !.pc = "at_error", !.session = Left(@),
                                !.out = Append(@, StreamExcChunk(event)),
                                !.failed = TRUE]
                 ELSE [@ EXCEPT !.pc = "raised", !.session = Left(@),
                                !.failed = TRUE]
            [] OTHER ->
                 [@ EXCEPT !.pc = "done", !.session = Left(@)]]
    /\ UNCHANGED notStream

\* the consumer asks for the next chunk after the error chunk: the
\* generator returns
stream_finish(i) ==
    /\ st[i].pc = "at_error"
    /\ st' = [st EXCEPT ![i].pc = "done", ![i].session = Left(@)]
    /\ UNCHANGED notStream

\* the consumer drops the generator while it is suspended at a yield
stream_abandon(i) ==
    /\ st[i].pc \in {"at_chunk", "at_error"}
    /\ st' = [st EXCEPT ![i].pc = IF st[i].pc = "at_chunk" THEN "dropped_at_chunk"
                                  ELSE "dropped_at_error"]
    /\ UNCHANGED notStream

\* aclose(): GeneratorExit is thrown at the yield.  At a chunk's yield the
\* handlers of the generator are around it; a handler that catches it
\* yields its error chunk, which aclose() answers with RuntimeError.
stream_aclose(i) ==
    /\ st[i].pc \in {"dropped_at_chunk", "dropped_at_error"}
    /\ st' = [st EXCEPT ![i] =
          IF st[i].pc = "dropped_at_chunk"
             /\ Catches(StreamHandlerClass, "GeneratorExit")
          THEN [@ EXCEPT !.pc = "raised", !.session = Left(@)]
          ELSE [@ EXCEPT !.pc = "closed", !.session = Left(@)]]
    /\ UNCHANGED notStream

InitStream == st = [i \in StreamIds |-> NoStream]

NextStream ==
    \/ \E i \in StreamIds, provider \in Providers : stream_ai_call(i, provider)
    \/ \E i \in StreamIds, outcome \in {"ok", "bad_status", "conn_error"} :
          stream_open(i, outcome)
    \/ \E i \in StreamIds,
          event \in {"chunk", "empty", "malformed", "error_line", "conn_error", "end"} :
          stream_read(i, event)
    \/ \E i \in StreamIds : stream_finish(i)
    \/ \E i \in StreamIds : stream_abandon(i)
    \/ \E i \in StreamIds : stream_aclose(i)

(***************************************************************************)
(* Claims C15 and C16: the end of a stream.                                *)
(***************************************************************************)
IsErrorChunk(c) == StartsWith(c, "[Error") \/ StartsWith(c, "\n\n[Error")

\* C15 (as claimed): a stream in which the backend failed, before or after
\* some chunks, ends with one error chunk as its last chunk, yields nothing
\* after an error chunk, and never raises to its consumer.
C15_FailureEndsWithErrorChunk ==
    \A i \in StreamIds :
        /\ st[i].pc # "raised"
        /\ \A k \in 1..Len(st[i].out) :
              IsErrorChunk(st[i].out[k]) => k = Len(st[i].out)
        /\ (st[i].failed /\ st[i].pc = "done") =>
              /\ st[i].out # <<>>
              /\ IsErrorChunk(st[i].out[Len(st[i].out)])

WithoutSid == {k \in 1..Len(turns) : Falsy(turns[k].sid_in)}

\* process_with_memory of turn k has returned and the store served it
ServedTurn(k) == memory_on /\ TurnReturned(k) /\ ~turns[k].store_failed

ConversationsOf(session_id) == {c \in conversations : c.session_id = session_id}

\* every command went through process_with_memory with the store available
AllServed == \A k \in 1..Len(turns) : ServedTurn(k)

\* C21: a handled command without session id creates exactly one
\* conversation, for its client, titled with the text cut at 50 characters,
\* and adopts its id; a command that carries a session id creates none; so
\* the conversations are as many as the commands without session id (store
\* available).
C21_OneConversationPerNewSession ==
    /\ \A k \in WithoutSid :
          ServedTurn(k) =>
              /\ ConversationsOf(turns[k].sid) =
                    {[session_id |-> turns[k].sid,
                      client_id |-> turns[k].client_id,
                      title |-> IF Len(turns[k].text) > 50
                                  THEN SubSeq(turns[k].text, 1, 50) \o "..."
                                  ELSE turns[k].text]}
              /\ \A n \in 1..Len(turns[k].answers) :
                    turns[k].answers[n].session_id = turns[k].sid
    /\ Cardinality(conversations) <= Cardinality(WithoutSid)
    /\ AllServed => Cardinality(conversations) = Cardinality(WithoutSid)

\* two commands without session id were served, the second with a text of
\* more than 50 characters
C21_Witness ==
    /\ Len(turns) = 2 /\ AllServed
    /\ WithoutSid = {1, 2}
    /\ Cardinality(conversations) = 2
    /\ \E c \in conversations : Len(c.title) = 53

\* a command that carried a session id was served and created nothing
C21_WitnessCarried ==
    /\ Len(turns) = 2 /\ AllServed
    /\ WithoutSid = {1}
    /\ Cardinality(conversations) = 1

(***************************************************************************)
(* Claim C25                                                               *)
(***************************************************************************)
\* the stored messages of a session are user, assistant, user, ...
Alternates(rows) ==
    \A i \in 1..Len(rows) :
        rows[i].role = IF i % 2 = 1 THEN "user" ELSE "assistant"

\* the commands that stored a message in the session
TurnsIn(session_id) ==
    {SessionMessages(session_id)[i].turn :
        i \in 1..Len(SessionMessages(session_id))}

\* the calls of process_with_memory for turns i and j ran at the same time
Overlapped(i, j) ==
    /\ i # j
    /\ TurnReturned(j) => turns[i].start < turns[j].end
    /\ TurnReturned(i) => turns[j].start < turns[i].end

\* position of the user message of turn k among the messages, 0 if none
UserRowOf(k) ==
    LET at == {i \in 1..Len(messages) :
                  messages[i].turn = k /\ messages[i].role = "user"}
    IN IF at = {} THEN 0 ELSE CHOOSE i \in at : TRUE

\* the history turn j gave to the provider lacks the prompt of turn i,
\* which is stored in the same session ahead of turn j's own prompt
OmitsPrompt(i, j) ==
    /\ i # j
    /\ turns[j].queried
    /\ UserRowOf(i) > 0 /\ UserRowOf(j) > UserRowOf(i)
    /\ messages[UserRowOf(i)].session_id = messages[UserRowOf(j)].session_id
    /\ \A n \in 1..Len(turns[j].context) :
          turns[j].context[n] # Msg("user", turns[i].text)

SessionIds == {c.session_id : c \in conversations}

\* C25: calls on one session are not serialized.  A transcript that does
\* not alternate user / assistant, or a history read that omits a prompt
\* stored ahead of the reader's own, occurs, and only between two calls on
\* the session that ran at the same time (no store operation failing).
C25_InterleavingOnlyWhenConcurrent ==
    /\ \A sid \in SessionIds :
          (~Alternates(SessionMessages(sid))
              /\ \A k \in TurnsIn(sid) : ~turns[k].store_failed)
            => \E i \in TurnsIn(sid), j \in TurnsIn(sid) : Overlapped(i, j)
    /\ \A i \in 1..Len(turns), j \in 1..Len(turns) :
          (OmitsPrompt(i, j) /\ ~turns[i].store_failed /\ ~turns[j].store_failed)
            => Overlapped(i, j)

\* two calls on one session, no store failure: the second read an empty
\* history after the first was received, and the session holds user, user,
\* assistant, assistant
C25_Witness ==
    /\ Len(turns) = 2 /\ AllServed
    /\ turns[2].sid_in = turns[1].sid
    /\ OmitsPrompt(1, 2)
    /\ turns[2].context = <<>>
    /\ [i \in 1..4 |-> SessionMessages(turns[1].sid)[i].role] =
           <<"user", "user", "assistant", "assistant">>

(***************************************************************************)
(* Claim C32                                                               *)
(***************************************************************************)
\* nothing but spaces
IsBlank(s) == \A i \in 1..Len(s) : SubSeq(s, i, i) = " "

\* task t answered a command whose text is empty after trimming: HTTP 400
\* over REST, an "error" frame over the WebSocket
RejectsBlank(t) ==
    /\ task'[t].sent \in {"http_400", "error"}
    /\ task'[t].sent # task[t].sent

\* C32: a REST or WebSocket command whose text is empty after trimming
\* never reaches process_with_memory or the provider and persists nothing;
\* REST answers 400, the WebSocket sends an error frame and keeps the
\* connection's loop and session id.
C32_BlankRejectedByCaller ==
    /\ [](\A k \in 1..Len(turns) : ~IsBlank(turns[k].text))
    /\ [](\A i \in 1..Len(messages) :
            messages[i].role = "user" => ~IsBlank(messages[i].content))
    /\ [][\A t \in Tasks :
            RejectsBlank(t) =>
                /\ task' = [task EXCEPT ![t].sent = task'[t].sent]
                /\ task[t].kind = "ws" => task'[t].sent = "error"
                /\ task[t].kind # "ws" => task'[t].sent = "http_400"
                /\ UNCHANGED <<users, conversations, messages, n_uuid,
                               active_connections, turns, gclk>>]_vars

\* a connection got an error frame and waits for its next frame with its
\* session id, and a REST request was answered 400
C32_Witness ==
    \E t \in Tasks, u \in Tasks :
        /\ task[t].kind = "ws" /\ task[t].pc = "ws_loop"
        /\ task[t].sent = "error" /\ ~Falsy(task[t].conn_sid)
        /\ task[u].kind = "none" /\ task[u].sent = "http_400"
        /\ turns = <<>> /\ messages = <<>>

(***************************************************************************)
(* Claim C33                                                               *)
(***************************************************************************)
\* C33: a text query_ai_server returns for a provider's answer has at most
\* max_response_length characters, and an answer no longer than that is
\* returned as the provider gave it.
C33_ReplyWithinMaxLength ==
    \A k \in 1..Len(turns) :
        (turns[k].queried /\ turns[k].provider_ok)
            => /\ Len(turns[k].reply) <= max_response_length
               /\ \E content \in RawContents :
                      /\ turns[k].reply = Truncate(Strip(content))
                      /\ Len(Strip(content)) <= max_response_length
                            => turns[k].reply = Strip(content)

(***************************************************************************)
(* Claim C34                                                               *)
(***************************************************************************)
\* a conversation the database file holds from earlier runs, longer than
\* the history window
OldSid == "old1"
OldLength == memory_context_length + 1
OldMessages ==
    [i \in 1..OldLength |->
        [session_id |-> OldSid,
         role |-> IF i % 2 = 1 THEN "user" ELSE "assistant",
         content |-> "m" \o ToString(i), turn |-> 0]]

\* task t got its history from the store in this step
FetchesHistory(t) == task[t].pc = "history" /\ task'[t].pc = "add_user"

\* C34: the history process_with_memory fetches for a turn has at most
\* memory_context_length messages, they are the most recent messages of
\* the session, oldest first, and none of them is a message of that turn.
C34_HistoryWindow ==
    [][\A t \in Tasks :
          FetchesHistory(t) =>
              LET stored == SessionMessages(task[t].session_id)
                  history == task'[t].context
                  skipped == Len(stored) - Len(history)
              IN  /\ Len(history) <= memory_context_length
                  /\ Len(history) < memory_context_length => skipped = 0
                  /\ skipped >= 0
                  /\ \A i \in 1..Len(history) :
                        /\ history[i] = Msg(stored[skipped + i].role,
                                            stored[skipped + i].content)
                        /\ stored[skipped + i].turn # task[t].turn]_vars

\* a turn got a full window out of a longer transcript that holds the
\* messages of an earlier turn of this run
C34_Witness ==
    \E t \in Tasks :
        /\ task[t].pc = "add_user"
        /\ Len(task[t].context) = memory_context_length
        /\ Len(SessionMessages(task[t].session_id)) > memory_context_length + 1
        /\ task[t].context[memory_context_length].role = "assistant"
        /\ \E i \in 1..Len(messages) :
              messages[i].turn = 1 /\ messages[i].role = "assistant"
                /\ task[t].context[memory_context_length].content
                      = messages[i].content

(***************************************************************************)
(* Claim C18                                                               *)
(***************************************************************************)
\* C18: the answer to a command carries success = false whenever the
\* provider call of that command failed, and success = true only when a
\* provider produced the text.
C18_FailureReportedOnWire ==
    \A k \in 1..Len(turns) :
        \A n \in 1..Len(turns[k].answers) :
            turns[k].answers[n].success <=> turns[k].provider_ok

(***************************************************************************)
(* The requests the adapters build: ask_ollama, stream_ollama, ask_gemini  *)
(* and stream_gemini of gateway/ai_providers.py, ask_ollama and ask_gemini *)
(* of gateway/server.py.  Texts are written without diacritics.            *)
(***************************************************************************)
\* language arguments: the two the adapters know, and some they do not
Languages == {"en", "no", "de", "EN", "", None}
RecognizedLanguages == {"en", "no"}
\* the other arguments of an adapter
Prompts == {"hi"}
Contexts == {"", "ctx"}
SystemPrompts == {"", "You are Nora."}
\* whether use_model names a Gemini 2.x model (is_2x)
Is2x == {TRUE, FALSE}
RequestInputs ==
    [prompt : Prompts, context : Contexts, system_prompt : SystemPrompts,
     is_2x : Is2x]

Adapters ==
    {"ai_providers.ask_ollama", "ai_providers.stream_ollama",
     "ai_providers.ask_gemini", "ai_providers.stream_gemini",
     "server.ask_ollama", "server.ask_gemini"}

\* dict.get(key, default)
DictGet(d, key, default) == IF key \in DOMAIN d THEN d[key] ELSE default

\* language_instructions of ask_ollama and stream_ollama
ollama_language_instructions ==
    [no |-> "Svar alltid pa norsk. Du er en hyggelig og profesjonell assistent.",
     en |-> "Always respond in English. You are a friendly and professional assistant."]

\* language_instructions of ask_gemini and stream_gemini
gemini_language_instructions ==
    [no |-> "Svar alltid pa norsk.", en |-> "Always respond in English."]

\* lang_instruction of the adapters of ai_providers.py
ProvidersLangInstruction(table, language) ==
    DictGet(table, language, table["en"])

\* lang_instruction of server.py's adapters: the if / elif, which has no else;
\* english is the text of the "en" branch
ServerLangInstruction(english, language) ==
    IF language = "no"
      THEN "\n\nIMPORTANT: Always respond in Norwegian (Norsk). The user prefers Norwegian language."
      ELSE IF language = "en" THEN english ELSE ""

\* messages of ask_ollama and stream_ollama (ai_providers.py)
ProvidersOllamaRequest(language, in) ==
    LET lang_instruction ==
            ProvidersLangInstruction(ollama_language_instructions, language)
        full_system == in.system_prompt \o "\n\n" \o lang_instruction
    IN [system |->
            IF in.context # ""
              THEN full_system \o "\n\nHere is relevant company context:\n"
                       \o in.context
              ELSE full_system,
        user |-> in.prompt]

\* request_body of ask_gemini and stream_gemini (ai_providers.py)
ProvidersGeminiRequest(language, in) ==
    LET lang_instruction ==
            ProvidersLangInstruction(gemini_language_instructions, language)
        full_prompt == in.system_prompt \o "\n\n" \o lang_instruction
    IN IF in.is_2x
         THEN [system |-> full_prompt,
               user |-> IF in.context # ""
                          THEN "Context:\n" \o in.context \o "\n\nUser: "
                                   \o in.prompt
                          ELSE in.prompt]
         ELSE [system |-> "",
               user |-> (IF in.context # ""
                           THEN full_prompt \o "\n\nContext:\n" \o in.context
                           ELSE full_prompt)
                        \o "\n\nUser: " \o in.prompt]

\* the messages of server.py's ask_ollama; base_prompt is the text of
\* system_prompt.txt or the sentence made from the configuration
ServerOllamaRequest(language, in) ==
    [system |->
        in.system_prompt
            \o ServerLangInstruction("\n\nRespond in English.", language)
            \o "\n\nUse this information to answer questions:\n" \o in.context
            \o "\n\nBe helpful, friendly, and concise. If asked about files or documents, refer to the information provided above.",
     user |-> in.prompt]

\* the prompt of server.py's ask_gemini
ServerGeminiRequest(language, in) ==
    [system |-> "",
     user |->
        "You are Nora, an AI assistant for the company."
            \o ServerLangInstruction("\nRespond in English.", language)
            \o "\n\nUse this information to answer questions:\n" \o in.context
            \o "\n\nUser question: " \o in.prompt
            \o "\n\nBe helpful, friendly, and concise."]

BuildRequest(adapter, language, in) ==
    CASE adapter \in {"ai_providers.ask_ollama", "ai_providers.stream_ollama"}
           -> ProvidersOllamaRequest(language, in)
      [] adapter \in {"ai_providers.ask_gemini", "ai_providers.stream_gemini"}
           -> ProvidersGeminiRequest(language, in)
      [] adapter = "server.ask_ollama" -> ServerOllamaRequest(language, in)
      [] adapter = "server.ask_gemini" -> ServerGeminiRequest(language, in)

NoRequest ==
    [adapter |-> None, language |-> None, system |-> "", user |-> "",
     inputs |-> [prompt |-> "", context |-> "", system_prompt |-> "",
                 is_2x |-> FALSE]]

\* an adapter is called and builds its request
adapter_builds_request(adapter, language, in) ==
    /\ request' =
           [adapter |-> adapter, language |-> language,
            system |-> BuildRequest(adapter, language, in).system,
            user |-> BuildRequest(adapter, language, in).user,
            inputs |-> in]
    /\ UNCHANGED notLang

InitLang == request = NoRequest

NextLang ==
    \E adapter \in Adapters, language \in Languages, in \in RequestInputs :
        adapter_builds_request(adapter, language, in)

(***************************************************************************)
(* Claim C17                                                               *)
(***************************************************************************)
\* the request the same adapter builds from the same inputs and "en"
RequestForEn ==
    BuildRequest(request.adapter, "en", request.inputs)

\* C17: in every adapter, an unrecognized language code gives the same
\* language instruction, and so the same request, as the code "en" with the
\* other inputs the same.
C17_UnrecognizedAsEn ==
    (request.adapter # None /\ request.language \notin RecognizedLanguages)
        => /\ request.system = RequestForEn.system
           /\ request.user = RequestForEn.user

(***************************************************************************)
(* POST /chat of gateway/server.py: chat, ask_ai and the two adapters it   *)
(* calls.  One pass of the retry loop of ask_ollama is one step; the one   *)
(* request of ask_gemini is one step.                                      *)
(***************************************************************************)
\* values of the environment variable AI_PROVIDER
ConfiguredProviders == {"ollama", "gemini"}
\* values of the environment variable GEMINI_API_KEY
ChatKeys == {"", GEMINI_PLACEHOLDER, "k3y"}
\* server.py's AI_MODEL (its own default, not config.py's)
SERVER_AI_MODEL == "llama2"
\* the fields provider, model and language of a ChatRequest
ChatProviders == Providers \cup {None}
ChatModels == Models
ChatLanguages == {"en", "de"}

\* max_retries of server.py's ask_ollama
chat_max_retries == 3

\* what the health check GET /api/tags of one pass can end in
\*   ok          status 200
\*   bad_status  another status
\*   conn_error  httpx.ConnectError (the daemon is not started)
\*   timeout     httpx.TimeoutException
ProbeOutcomes == {"ok", "bad_status", "conn_error", "timeout"}

\* what the POST /api/chat of one pass can end in: OllamaOutcomes
ChatOllamaOutcomes == OllamaOutcomes
\* what the one request of server.py's ask_gemini can end in
\*   ok           the text was returned
\*   bad_status   raise_for_status raised httpx.HTTPStatusError
\*   bad_shape    the body has no candidates (KeyError)
\*   conn_error   httpx.ConnectError
\*   timeout      httpx.TimeoutException
ChatGeminiOutcomes == {"ok", "bad_status", "bad_shape", "conn_error", "timeout"}

\* the exception one pass of ask_ollama's loop leaves in last_error, by its
\* class; None when the pass returned the content
PassError(probe, outcome) ==
    CASE probe \in {"bad_status", "conn_error"} -> "ConnectionError"
      [] probe = "timeout" -> "TimeoutException"
      [] outcome = "ok" -> None
      [] outcome = "conn_error" -> "ConnectionError"
      [] outcome = "not_found" -> "ValueError"
      [] outcome = "bad_status" -> "HTTPStatusError"
      [] outcome = "no_content" -> "KeyError"
      [] outcome = "timeout" -> "TimeoutException"
      [] OTHER -> "Exception"

\* the exception ask_gemini lets through, by its class
GeminiError(outcome) ==
    CASE outcome = "ok" -> None
      [] outcome = "bad_status" -> "HTTPStatusError"
      [] outcome = "bad_shape" -> "KeyError"
      [] outcome = "conn_error" -> "ConnectError"
      [] OTHER -> "TimeoutException"

\* 'await asyncio.sleep(1)' after a failed pass that is not the last
ChatSleep(attempt) == 1

\* use_provider = provider or AI_PROVIDER
UseProvider(provider) == IF Truthy(provider) THEN provider ELSE AI_PROVIDER

\* the adapter ask_ai calls first (the if / else of lines 401-404)
ChatPrimaryAdapter(provider) ==
    IF UseProvider(provider) = "gemini" /\ Truthy(chat_key)
      THEN "gemini" ELSE "ollama"

\* use_model of an adapter of server.py, given its argument model
ChatUseModel(adapter, model) ==
    IF Truthy(model) THEN model
    ELSE IF Truthy(SERVER_AI_MODEL) THEN SERVER_AI_MODEL
    ELSE IF adapter = "gemini" THEN "gemini-1.5-flash" ELSE SERVER_AI_MODEL

\* one call of an adapter, with the arguments ask_ai passes
ChatCall(adapter, model, language) ==
    [adapter |-> adapter, model |-> model, language |-> language,
     use_model |-> ChatUseModel(adapter, model)]

\* the model argument of the fallback call: ask_ai passes its own model on
ChatFallbackModel(model) == model

\* the except clause of ask_ai and the condition of line 407
ChatFallsBack(error) ==
    /\ error = "ConnectionError"
    /\ UseProvider(chat_args.provider) = "ollama"
    /\ Truthy(chat_key)

ChatFallbackNote == "\n\n*(Note: Using Gemini as Ollama is currently unavailable)*"

\* "Model '...' not found. Please run: ollama pull ..."
ChatNotFoundMsg(use_model) ==
    "Model '" \o use_model \o "' not found. Please run: ollama pull " \o use_model

\* the dictionary chat returns when ask_ai returned; by is history: the
\* adapter whose call returned the text
ChatSuccess(response, by) ==
    <<[success |-> TRUE, response |-> response,
       provider |-> UseProvider(chat_args.provider),
       model |-> ChatUseModel("ollama", chat_args.model), by |-> by]>>

\* the dictionary chat returns for an exception ask_ai let through
ChatFailure(error) ==
    <<[success |-> FALSE,
       response |->
           IF error = "ConnectionError" THEN "Connection Error"
           ELSE IF error = "ValueError"
             THEN "Configuration Error\n\n"
                      \o ChatNotFoundMsg(chat_calls[1].use_model)
           ELSE "Sorry, I encountered an error",
       provider |-> None, model |-> None, by |-> None]>>

\* a request a backend receives
ChatReq(to, kind, model) ==
    [to |-> to, kind |-> kind, attempt |-> chat_attempt, model |-> model,
     key |-> IF to = "gemini" THEN chat_key ELSE None]

\* ask_gemini's request
GeminiReq(call) == ChatReq("gemini", "generateContent", call.use_model)

\* POST /chat up to the first await of an adapter: ask_ai loads the context
\* and calls the primary adapter
chat_request(provider, model, language, l1, l2) ==
    /\ chat_pc \in {"idle", "done"}
    /\ ServerLoad(FALSE, l1, l2)
    /\ chat_args' = [provider |-> provider, model |-> model, language |-> language]
    /\ chat_calls' = <<ChatCall(ChatPrimaryAdapter(provider), model, language)>>
    /\ chat_pc' = "primary"
    /\ chat_ret' = <<>>
    /\ chat_attempt' = 0
    /\ chat_sleeps' = <<>>
    /\ chat_reqs' = <<>>
    /\ chat_last' = None
    /\ UNCHANGED <<AI_PROVIDER, chat_key>>
    /\ UNCHANGED <<askVars, memVars, streamVars, langVars, loginVars, clientVars>>

\* ask_ai after ask_ollama raised last_error: the fallback call of
\* ask_gemini, or the exception goes through to chat
ChatOllamaRaised(error) ==
    IF ChatFallsBack(error)
    THEN /\ chat_calls' =
                Append(chat_calls,
                       ChatCall("gemini", ChatFallbackModel(chat_args.model),
                                chat_args.language))
         /\ chat_pc' = "fallback"
         /\ UNCHANGED chat_ret
    ELSE /\ chat_ret' = ChatFailure(error)
         /\ chat_pc' = "done"
         /\ UNCHANGED chat_calls

\* one pass of the loop of ask_ollama when it is the primary adapter: the
\* health check, the chat request when the check passed, and then the
\* return, the sleep before the next pass, or the raise after the last
chat_ollama_attempt(probe, outcome) ==
    /\ chat_pc = "primary"
    /\ chat_calls[1].adapter = "ollama"
    /\ probe # "ok" => outcome = "ok"
    /\ LET error == PassError(probe, outcome)
           sent == <<ChatReq("ollama", "tags", None)>> \o
                   (IF probe = "ok"
                      THEN <<ChatReq("ollama", "chat", chat_calls[1].use_model)>>
                      ELSE <<>>)
       IN  /\ chat_reqs' = chat_reqs \o sent
           /\ IF error = None
              THEN /\ chat_ret' = ChatSuccess("text", "ollama")
                   /\ chat_pc' = "done"
                   /\ UNCHANGED <<chat_calls, chat_attempt, chat_sleeps, chat_last>>
              ELSE /\ chat_last' = error
                   /\ IF chat_attempt < chat_max_retries - 1
                      THEN /\ chat_sleeps' = Append(chat_sleeps, ChatSleep(chat_attempt))
                           /\ chat_attempt' = chat_attempt + 1
                           /\ UNCHANGED <<chat_pc, chat_calls, chat_ret>>
                      ELSE /\ ChatOllamaRaised(error)
                           /\ UNCHANGED <<chat_attempt, chat_sleeps>>
    /\ UNCHANGED <<AI_PROVIDER, chat_key, chat_args>>
    /\ UNCHANGED notChat

\* the request of ask_gemini when it is the primary adapter: ask_ai returns
\* the text, or the exception goes through to chat
chat_gemini_ends(outcome) ==
    /\ chat_pc = "primary"
    /\ chat_calls[1].adapter = "gemini"
    /\ chat_reqs' = Append(chat_reqs, GeminiReq(chat_calls[1]))
    /\ chat_last' = GeminiError(outcome)
    /\ chat_ret' = IF outcome = "ok" THEN ChatSuccess("text", "gemini")
                   ELSE ChatFailure(GeminiError(outcome))
    /\ chat_pc' = "done"
    /\ UNCHANGED <<AI_PROVIDER, chat_key, chat_args, chat_calls, chat_attempt,
                   chat_sleeps>>
    /\ UNCHANGED notChat

\* the fallback call of ask_gemini ends
chat_fallback_ends(outcome) ==
    /\ chat_pc = "fallback"
    /\ chat_reqs' = Append(chat_reqs, GeminiReq(chat_calls[2]))
    /\ chat_ret' =
           IF outcome = "ok"
           THEN ChatSuccess("text" \o ChatFallbackNote, "gemini")
           ELSE ChatFailure(GeminiError(outcome))
    /\ chat_pc' = "done"
    /\ UNCHANGED <<AI_PROVIDER, chat_key, chat_args, chat_calls, chat_attempt,
                   chat_sleeps, chat_last>>
    /\ UNCHANGED notChat

InitChat ==
    /\ AI_PROVIDER \in ConfiguredProviders
    /\ chat_key \in ChatKeys
    /\ chat_pc = "idle"
    /\ chat_args = [provider |-> None, model |-> None, language |-> "en"]
    /\ chat_calls = <<>>
    /\ chat_ret = <<>>
    /\ chat_attempt = 0
    /\ chat_sleeps = <<>>
    /\ chat_reqs = <<>>
    /\ chat_last = None

\* the gateway of server.py with the default configuration and no request
RestChat ==
    /\ InitChat
    /\ AI_PROVIDER = "ollama"
    /\ chat_key = ""

NextChat ==
    \/ \E provider \in ChatProviders, model \in ChatModels,
          language \in ChatLanguages,
          l1 \in Listings(company_info), l2 \in Listings(uploads) :
          chat_request(provider, model, language, l1, l2)
    \/ \E probe \in ProbeOutcomes, outcome \in ChatOllamaOutcomes :
          chat_ollama_attempt(probe, outcome)
    \/ \E outcome \in ChatGeminiOutcomes : chat_gemini_ends(outcome)
    \/ \E outcome \in ChatGeminiOutcomes : chat_fallback_ends(outcome)

(***************************************************************************)
(* Claims C19 and C20                                                      *)
(***************************************************************************)
\* the provider strings that name no adapter
UnknownProviders == {p \in ChatProviders \ {None} : p \notin {"ollama", "gemini"}}

\* C19: for every provider string outside {ollama, gemini}, the adapter
\* called first is the one the configured default AI_PROVIDER names, for
\* each configured default.
C19_UnknownProviderUsesDefault ==
    (chat_pc # "idle" /\ chat_args.provider \in UnknownProviders)
        => chat_calls[1].adapter = AI_PROVIDER

\* C20: whenever a fallback adapter is called after the primary failed, it
\* is called without the caller's model override and uses its own default
\* model.
C20_FallbackWithoutOverride ==
    Len(chat_calls) = 2
        => /\ chat_calls[2].model = None
           /\ chat_calls[2].use_model = ChatUseModel(chat_calls[2].adapter, None)

(***************************************************************************)
(* Claims C22 to C24 and C26 to C30, on server.py's /chat                  *)
(***************************************************************************)
\* 'sub in s'
Contains(s, sub) ==
    \E i \in 1..(Len(s) - Len(sub) + 1) : SubSeq(s, i, i + Len(sub) - 1) = sub

\* "ollama pull <model>", the command that installs the model
PullCommand(use_model) == "ollama pull " \o use_model

\* C22: when the local backend reports that the named model is absent
\* (404), the adapter makes no further attempt in that call and surfaces an
\* error that contains the pull command for that model.
C22_NotFoundNotRetried ==
    chat_last = "ValueError"
        => /\ chat_pc = "done"
           /\ chat_ret # <<>>
           /\ ~chat_ret[1].success
           /\ Contains(chat_ret[1].response, PullCommand(chat_calls[1].use_model))

\* C23: when a backend response does not match the expected shape (no
\* message / content, no candidates), the adapter makes no further attempt,
\* does not report success, and surfaces a provider error.
C23_ProtocolErrorNotRetried ==
    chat_last = "KeyError"
        => /\ chat_pc = "done"
           /\ chat_ret # <<>>
           /\ ~chat_ret[1].success

\* C24: whenever GEMINI_API_KEY is empty or the placeholder, no request is
\* sent to the cloud API, on any path from ask_ai.
C24_NoCloudCallWithoutKey ==
    \A i \in 1..Len(chat_reqs) :
        chat_reqs[i].to = "gemini" => GeminiKeyConfigured(chat_reqs[i].key)

\* C27: after the failed attempt with 0-based index i the adapter waits
\* 2^i seconds before attempt i+1, and it does not wait after the final
\* attempt.
C27_ExponentialBackoff ==
    /\ \A i \in 1..Len(chat_sleeps) : chat_sleeps[i] = 2 ^ (i - 1)
    /\ Len(chat_sleeps) <= chat_max_retries - 1

\* the other provider can be called: Gemini needs a key, Ollama needs none
AlternateConfigured(primary) == primary = "gemini" \/ Truthy(chat_key)

\* C29: in server.py's ask_ai, if the primary call ultimately fails and an
\* alternate provider is configured, the alternate adapter is invoked, for
\* either primary provider and every failure kind of the primary.
C29_FallbackOnAnyFailure ==
    (chat_pc = "done" /\ Len(chat_calls) = 1
        /\ AlternateConfigured(chat_calls[1].adapter))
        => chat_ret[1].success

\* C30: the provider reported with a successful response is the adapter
\* whose call returned the text.
C30_ProviderNamesProducer ==
    (chat_ret # <<>> /\ chat_ret[1].success)
        => chat_ret[1].provider = chat_ret[1].by

(***************************************************************************)
(* Claims C26 and C28, on the local adapters of both gateways              *)
(***************************************************************************)
\* the requests ask_ollama of ai_providers.py sent to the Ollama backend in
\* this call: each is a chat request (client.chat, or POST /api/chat)
AskOllamaReqs ==
    LET mine == SelectSeq(a_reqs, LAMBDA r : r.adapter = "ollama")
    IN [i \in 1..Len(mine) |-> [to |-> "ollama", kind |-> "chat"]]

\* the requests server.py's ask_ollama sent in this call
ChatOllamaReqs == SelectSeq(chat_reqs, LAMBDA r : r.to = "ollama")

CountKind(reqs, kind) == Cardinality({i \in 1..Len(reqs) : reqs[i].kind = kind})

\* C26: for every pattern of backend failures, one ask_ollama call makes at
\* most max_retries (3) attempts and then returns or raises; it makes no
\* attempt after a success.
C26_BoundedRetries ==
    /\ a_attempt <= max_retries - 1
    /\ Len(AskOllamaReqs) <= max_retries
    /\ Len(AskOllamaReqs) = max_retries => a_adapter = None
    /\ a_last = "ok" => a_adapter = None
    /\ chat_attempt <= chat_max_retries - 1
    /\ CountKind(ChatOllamaReqs, "tags") <= chat_max_retries
    /\ CountKind(ChatOllamaReqs, "chat") <= CountKind(ChatOllamaReqs, "tags")
    /\ CountKind(ChatOllamaReqs, "tags") = chat_max_retries => chat_pc # "primary"
    /\ chat_pc = "primary" => chat_ret = <<>>

\* both adapters used all their attempts and ended in a failure
C26_Witness ==
    /\ Len(AskOllamaReqs) = max_retries
    /\ a_ret # <<>> /\ StartsWith(a_ret[1].text, "Error: ")
    /\ CountKind(ChatOllamaReqs, "chat") = chat_max_retries
    /\ chat_ret # <<>> /\ ~chat_ret[1].success

\* every chat request follows a health check of the same attempt
ProbedFirst(reqs) ==
    \A i \in 1..Len(reqs) :
        reqs[i].kind = "chat" => i > 1 /\ reqs[i - 1].kind = "tags"

\* C28: in every attempt of the local adapter the chat request is sent
\* only after a probe of the daemon succeeded in that attempt.
C28_ProbeBeforeCall ==
    /\ ProbedFirst(ChatOllamaReqs)
    /\ ProbedFirst(AskOllamaReqs)

(***************************************************************************)
(* Claim C31, on ask_ai of ai_providers.py                                 *)
(***************************************************************************)
\* a model name the provider can serve: Gemini serves the names that start
\* with "gemini", Ollama the others
ValidFor(adapter, model) ==
    /\ model # None
    /\ StartsWith(model, "gemini") <=> adapter = "gemini"

\* C31: a model override the caller gives for the selected primary
\* provider, valid for it, is the model named in that provider's request.
C31_OverrideUsedByPrimary ==
    LET primary == PrimaryAdapter(a_args.provider)
    IN ValidFor(primary, a_args.model)
         => \A i \in 1..Len(a_reqs) :
                a_reqs[i].adapter = primary => a_reqs[i].model = a_args.model

(***************************************************************************)
(* Claim C35                                                               *)
(***************************************************************************)
\* C35: in one call of ai_providers.ask_ai the fallback adapter is another
\* one than the primary, for every provider value: no adapter is invoked
\* twice.
C35_FallbackDiffersFromPrimary ==
    \A i \in 1..Len(a_calls), j \in 1..Len(a_calls) :
        i # j => a_calls[i].adapter # a_calls[j].adapter

(***************************************************************************)
(* Claim C36                                                               *)
(***************************************************************************)
\* the client the conversation session_id was created for
OwnerOf(session_id) ==
    {c.client_id : c \in {d \in conversations : d.session_id = session_id}}

\* C36: a command of client A neither reads history from nor appends to a
\* conversation created for another client, whatever session id it carries.
C36_SessionsIsolatedByClient ==
    \A k \in 1..Len(turns) :
        /\ \A i \in 1..Len(messages) :
              messages[i].turn = k
                  => OwnerOf(messages[i].session_id) \subseteq {turns[k].client_id}
        /\ (turns[k].queried /\ turns[k].context # <<>>)
              => OwnerOf(turns[k].sid) \subseteq {turns[k].client_id}

(***************************************************************************)
(* Claim C37                                                               *)
(***************************************************************************)
\* turn k came with a session id that no conversation exists for
OrphanTurn(k) ==
    /\ ~Falsy(turns[k].sid_in)
    /\ ~ConversationExists(turns[k].sid_in)

\* task t is inside process_with_memory or about to answer
InTurn(t) ==
    task[t].pc \in {"create", "history", "add_user", "query", "add_reply", "respond"}

\* C37: a command that carries a session id for which no conversation
\* exists (never created, or its creation failed when the WebSocket
\* connected) leaves the store as it is: its add_message calls fail, no
\* conversation is created, neither message is stored, and the reply is
\* returned with that session id; so it goes for every command that
\* carries the id, also when the store works.
C37_OrphanSessionNeverStored ==
    /\ [](\A k \in 1..Len(turns) :
            OrphanTurn(k) =>
                /\ \A i \in 1..Len(messages) : messages[i].turn # k
                /\ (memory_on /\ turns[k].queried) => turns[k].store_failed
                /\ \A n \in 1..Len(turns[k].answers) :
                      /\ turns[k].answers[n].session_id = turns[k].sid_in
                      /\ turns[k].answers[n].text = turns[k].reply
                      /\ turns[k].queried)
    /\ [](\A i \in 1..Len(messages) : ConversationExists(messages[i].session_id))
    /\ [][\A t \in Tasks :
            (InTurn(t) /\ task'[t] # task[t] /\ OrphanTurn(task[t].turn))
                => /\ UNCHANGED <<users, conversations, messages>>
                   /\ task'[t].session_id = task[t].session_id
                         \/ task'[t].pc = "idle"]_vars

\* a connection whose conversation could not be created at connect got two
\* commands answered with its session id and nothing was stored, and a REST
\* command with an id that was never given out was answered
C37_Witness ==
    /\ memory_on
    /\ Len(turns) = MaxCommands
    /\ \E t \in Tasks :
          /\ task[t].kind = "ws" /\ task[t].pc = "ws_loop"
          /\ ~Falsy(task[t].conn_sid)
          /\ turns[1].sid_in = task[t].conn_sid
    /\ turns[2].sid_in = StrangerSid
    /\ \A k \in 1..Len(turns) :
          /\ OrphanTurn(k)
          /\ Len(turns[k].answers) = 1
          /\ turns[k].provider_ok
    /\ messages = <<>>

(***************************************************************************)
(* /auth/login and its rate limiter (gateway/server.py, gateway/auth.py)   *)
(***************************************************************************)
RATE_LIMIT_WINDOW == 300
MAX_LOGIN_ATTEMPTS == 5
\* the addresses login requests come from
LoginIps == {"10.0.0.1", "10.0.0.2"}
\* the clock moves in steps of LoginTick seconds, up to MaxLoginTime
LoginTick == 100
MaxLoginTime == 400

\* 'login_attempts[ip] = [t for t in login_attempts[ip]
\*                        if now - t < RATE_LIMIT_WINDOW]'
CleanAttempts(attempts, at) ==
    SelectSeq(attempts, LAMBDA t : at - t < RATE_LIMIT_WINDOW)

\* a check that lets an address in while it has MAX_LOGIN_ATTEMPTS failures
check_rate_limit_inclusive(attempts) == Len(attempts) <= MAX_LOGIN_ATTEMPTS

\* check_rate_limit, on the cleaned list
check_rate_limit(attempts) == Len(attempts) < MAX_LOGIN_ATTEMPTS

\* record_login_attempt
record_login_attempt(attempts, at) == Append(attempts, at)

\* how many failed logins of ip are recorded within the window
RecordedInWindow(ip) ==
    Cardinality({i \in 1..Len(login_attempts[ip]) :
                    login_now - login_attempts[ip][i] < RATE_LIMIT_WINDOW})

\* POST /auth/login; correct: the username and password are the admin's
login(ip, correct) ==
    LET cleaned == CleanAttempts(login_attempts[ip], login_now)
        allowed == check_rate_limit(cleaned)
        status == IF ~allowed THEN 429 ELSE IF correct THEN 200 ELSE 401
    IN  /\ login_attempts' = [login_attempts EXCEPT ![ip] =
              IF status = 401 THEN record_login_attempt(cleaned, login_now)
              ELSE cleaned]
        /\ login_last' = [ip |-> ip, correct |-> correct,
                          before |-> RecordedInWindow(ip), status |-> status,
                          verified |-> allowed]
        /\ login_limited' = IF status = 429 THEN login_limited \cup {ip}
                            ELSE login_limited
        /\ UNCHANGED login_now
        /\ UNCHANGED notLogin

\* time passes
login_tick ==
    /\ login_now < MaxLoginTime
    /\ login_now' = login_now + LoginTick
    /\ UNCHANGED <<login_attempts, login_last, login_limited>>
    /\ UNCHANGED notLogin

NoLogin == [ip |-> None, correct |-> FALSE, before |-> 0, status |-> 0,
            verified |-> FALSE]

InitLogin ==
    /\ login_attempts = [ip \in LoginIps |-> <<>>]
    /\ login_now = 0
    /\ login_last = NoLogin
    /\ login_limited = {}

NextLogin ==
    \/ \E ip \in LoginIps, correct \in BOOLEAN : login(ip, correct)
    \/ login_tick

(***************************************************************************)
(* Claim C38                                                               *)
(***************************************************************************)
\* C38: an address with MAX_LOGIN_ATTEMPTS failed logins recorded within
\* the last RATE_LIMIT_WINDOW seconds is answered 429 before its
\* credentials are checked, correct or not; a rejected attempt is not
\* recorded, so no address ever has more than MAX_LOGIN_ATTEMPTS recorded
\* attempts in the window, and it is let in again once fewer remain.
C38_LoginRateLimit ==
    /\ [](\A ip \in LoginIps : RecordedInWindow(ip) <= MAX_LOGIN_ATTEMPTS)
    /\ [](login_last.status # 0 =>
            /\ login_last.status = 429 <=> login_last.before >= MAX_LOGIN_ATTEMPTS
            /\ login_last.status = 429 => ~login_last.verified
            /\ login_last.status = 200 <=> (login_last.verified /\ login_last.correct))
    /\ [][\A ip \in LoginIps :
            Len(login_attempts'[ip]) > Len(login_attempts[ip])
                => /\ login_last'.ip = ip
                   /\ login_last'.status = 401
                   /\ RecordedInWindow(ip) < MAX_LOGIN_ATTEMPTS]_vars

\* an address that was locked out, with correct credentials refused, is
\* let in again while four of its failures are still in the window
C38_Witness ==
    /\ login_last.status = 200
    /\ login_last.ip \in login_limited
    /\ login_last.before = MAX_LOGIN_ATTEMPTS - 1

(***************************************************************************)
(* GatewayClient.send_command over WebSocket (client/gateway_client.py)    *)
(***************************************************************************)
\* how deep the reconnect-and-resend recursion is followed
MaxDepth == 4

\* what connect() can end in
\*   ok          the welcome frame came
\*   unexpected  another frame came in its place: self.connected stays False
\*   refused     websockets.connect raised
\*   dropped     the handshake send or the recv raised
ConnectOutcomes == {"ok", "unexpected", "refused", "dropped"}
\* what the frame received after the command can be
RecvOutcomes == {"response", "error", "other", "dropped"}

\* what _send_websocket returns for the frame it received
ClientReturn(outcome) ==
    CASE outcome = "response" -> "text"
      [] outcome = "error" -> "Error: message"
      [] OTHER -> ""

\* send_command -> _send_websocket, up to its first await
EnterSendWebsocket ==
    IF ~cl_connected \/ cl_websocket = 0 THEN "connect" ELSE "send"

\* 'except Exception': self.connected = False, then sleep and call
\* send_command again, or re-raise
SendFailed ==
    /\ cl_connected' = FALSE
    /\ cl_pc' = IF cl_auto_reconnect THEN "sleep" ELSE "raised"
    /\ UNCHANGED <<cl_auto_reconnect, cl_websocket, cl_depth>>

\* a caller awaits send_command(text)
client_send_command ==
    /\ cl_pc = "idle"
    /\ cl_pc' = EnterSendWebsocket
    /\ cl_depth' = 1
    /\ cl_processed' = 0
    /\ cl_ret' = None
    /\ UNCHANGED <<cl_auto_reconnect, cl_connected, cl_websocket>>
    /\ UNCHANGED notClient

\* 'await self.connect()', outside the try of _send_websocket
client_connect(outcome) ==
    /\ cl_pc = "connect"
    /\ cl_websocket' = IF outcome = "refused" THEN cl_websocket ELSE 1
    /\ cl_connected' = CASE outcome = "ok" -> TRUE
                          [] outcome = "unexpected" -> cl_connected
                          [] OTHER -> FALSE
    /\ cl_pc' = IF outcome \in {"ok", "unexpected"} THEN "send" ELSE "raised"
    /\ UNCHANGED <<cl_auto_reconnect, cl_depth, cl_processed, cl_ret>>
    /\ UNCHANGED notClient

\* 'await self.websocket.send(...)' of the command frame; a frame that was
\* sent reaches the gateway's loop, which processes it
client_send(sent) ==
    /\ cl_pc = "send"
    /\ IF sent
       THEN /\ cl_processed' = cl_processed + 1
            /\ cl_pc' = "recv"
            /\ UNCHANGED <<cl_auto_reconnect, cl_connected, cl_websocket, cl_depth>>
       ELSE /\ SendFailed
            /\ UNCHANGED cl_processed
    /\ UNCHANGED cl_ret
    /\ UNCHANGED notClient

\* 'response = await self.websocket.recv()'
client_recv(outcome) ==
    /\ cl_pc = "recv"
    /\ IF outcome = "dropped"
       THEN /\ SendFailed
            /\ UNCHANGED cl_ret
       ELSE /\ cl_pc' = "returned"
            /\ cl_ret' = ClientReturn(outcome)
            /\ UNCHANGED <<cl_auto_reconnect, cl_connected, cl_websocket, cl_depth>>
    /\ UNCHANGED cl_processed
    /\ UNCHANGED notClient

\* 'await asyncio.sleep(self.reconnect_delay)' and
\* 'return await self.send_command(text)'
client_resend ==
    /\ cl_pc = "sleep"
    /\ cl_depth < MaxDepth
    /\ cl_depth' = cl_depth + 1
    /\ cl_pc' = EnterSendWebsocket
    /\ UNCHANGED <<cl_auto_reconnect, cl_connected, cl_websocket, cl_processed,
                   cl_ret>>
    /\ UNCHANGED notClient

\* the caller got its result or its exception
client_done ==
    /\ cl_pc \in {"returned", "raised"}
    /\ cl_pc' = "idle"
    /\ cl_depth' = 0
    /\ UNCHANGED <<cl_auto_reconnect, cl_connected, cl_websocket, cl_processed,
                   cl_ret>>
    /\ UNCHANGED notClient

InitClient ==
    /\ cl_auto_reconnect \in BOOLEAN
    /\ cl_connected = FALSE
    /\ cl_websocket = 0
    /\ cl_pc = "idle"
    /\ cl_depth = 0
    /\ cl_processed = 0
    /\ cl_ret = None

\* a client made with the default auto_reconnect
RestClient ==
    /\ InitClient
    /\ cl_auto_reconnect = TRUE

NextClient ==
    \/ client_send_command
    \/ \E outcome \in ConnectOutcomes : client_connect(outcome)
    \/ \E sent \in BOOLEAN : client_send(sent)
    \/ \E outcome \in RecvOutcomes : client_recv(outcome)
    \/ client_resend
    \/ client_done

(***************************************************************************)
(* Claim C40                                                               *)
(***************************************************************************)
\* C40: with auto_reconnect, one send_command call makes the gateway
\* process its command at most once, whatever sends and receives fail.
C40_CommandProcessedAtMostOnce ==
    cl_auto_reconnect => cl_processed <= 1

(***************************************************************************)
(* Claim C39                                                               *)
(***************************************************************************)
\* C39: every connection that has completed its handshake and has not
\* ended is registered in active_connections under its client id, also
\* when two live connections present the same client id.
C39_LiveConnectionsRegistered ==
    \A t \in Tasks :
        task[t].kind = "ws" => active_connections[task[t].client_id] = <<t>>

(***************************************************************************)
(* Specifications.  Each one runs one component from its initial states    *)
(* and leaves the others at rest.                                          *)
(***************************************************************************)
\* ask_ai at rest
RestAsk ==
    /\ InitAsk
    /\ OLLAMA_LIB_AVAILABLE
    /\ GEMINI_API_KEY = ""

\* the gateway with no request yet
RestMem ==
    /\ InitMem
    /\ memory_on

\* no stream yet
RestStream == InitStream

\* the document store and its caches at start
RestCtx ==
    /\ InitCtx
    /\ company_info["config.json"] = Absent

\* no adapter has built a request, no chat request has come
RestOthers == InitLang /\ RestChat /\ InitLogin /\ RestClient

\* the initial states of each specification
StartAsk == InitAsk /\ RestMem /\ RestCtx /\ RestStream /\ RestOthers
StartMem == InitMem /\ RestAsk /\ RestCtx /\ RestStream /\ RestOthers
StartCtx == InitCtx /\ RestAsk /\ RestMem /\ RestStream /\ RestOthers
StartStream == InitStream /\ InitAsk /\ RestMem /\ RestCtx /\ RestOthers
StartLang ==
    /\ InitLang /\ RestAsk /\ RestMem /\ RestCtx /\ RestStream /\ RestChat
    /\ InitLogin /\ RestClient
StartChat ==
    /\ InitChat /\ RestAsk /\ RestMem /\ RestCtx /\ RestStream /\ InitLang
    /\ InitLogin /\ RestClient
StartLogin ==
    /\ InitLogin /\ RestAsk /\ RestMem /\ RestCtx /\ RestStream /\ InitLang
    /\ RestChat /\ RestClient
StartClient ==
    /\ InitClient /\ RestAsk /\ RestMem /\ RestCtx /\ RestStream /\ InitLang
    /\ RestChat /\ InitLogin

SpecAsk == StartAsk /\ [][NextAsk]_vars

SpecRest == StartMem /\ [][NextRest]_vars

SpecWs == StartMem /\ [][NextWs]_vars

\* the gateway with WebSocket clients that take the session of their
\* connection (or ask for a new one with an explicit null) and REST clients
\* without client id, with a session id that was never given out
NextSock ==
    \/ \E t \in Tasks, client_id \in ClientIds :
          websocket_connect(t, client_id, None)
    \/ \E t \in Tasks, fail \in BOOLEAN : ws_create_session(t, fail)
    \/ \E t \in Tasks : ws_welcome(t)
    \/ \E t \in Tasks : ws_ping(t)
    \/ \E t \in Tasks, text \in NextTexts, session_id \in {Absent, None} :
          ws_command(t, text, session_id)
    \/ \E t \in Tasks : ws_disconnect(t)
    \/ \E t \in Tasks, text \in NextTexts :
          process_command(t, text, None, StrangerSid)
    \/ NextPwm

SpecSock == StartMem /\ [][NextSock]_vars

\* the gateway started on a database file that holds an old conversation;
\* its client carries on with it or starts a new one
StartHist ==
    /\ memory_on = TRUE
    /\ users = {"c1"}
    /\ conversations =
          {[session_id |-> OldSid, client_id |-> "c1", title |-> "m1"]}
    /\ messages = OldMessages
    /\ n_uuid = 0
    /\ task = [t \in Tasks |-> IdleTask]
    /\ active_connections = [c \in AllClientIds |-> <<>>]
    /\ turns = <<>>
    /\ gclk = 0
    /\ RestAsk /\ RestCtx /\ RestStream /\ RestOthers

NextHist ==
    \/ \E t \in Tasks, text \in NextTexts, session_id \in {None, OldSid} :
          process_command(t, text, "c1", session_id)
    \/ NextPwm

SpecHist == StartHist /\ [][NextHist]_vars

SpecCtx == StartCtx /\ [][NextCtx]_vars

SpecStream == StartStream /\ [][NextStream]_vars

SpecLang == StartLang /\ [][NextLang]_vars

SpecChat == StartChat /\ [][NextChat]_vars

SpecLogin == StartLogin /\ [][NextLogin]_vars

SpecClient == StartClient /\ [][NextClient]_vars

\* the local adapters of both gateways, each called with no alternative:
\* ask_ai(provider="ollama", fallback=False) of ai_providers.py, and POST
\* /chat of a server.py configured for Ollama alone
StartLocal ==
    /\ InitAsk /\ GEMINI_API_KEY = ""
    /\ RestChat
    /\ RestMem /\ RestCtx /\ RestStream /\ InitLang
    /\ InitLogin /\ RestClient

NextLocal ==
    \/ ask_ai_call("ollama", None, FALSE)
    \/ \E outcome \in OllamaOutcomes, content \in Contents :
          ask_ollama_step(outcome, content)
    \/ ask_ai_return
    \/ \E l1 \in Listings(company_info), l2 \in Listings(uploads) :
          chat_request(None, None, "en", l1, l2)
    \/ \E probe \in ProbeOutcomes, outcome \in ChatOllamaOutcomes :
          chat_ollama_attempt(probe, outcome)

SpecLocal == StartLocal /\ [][NextLocal]_vars

====
